---- MODULE Spec2Model ----
(***************************************************************************)
(* Verification model of the detection core of Argos (Detector-de-Objetos):*)
(* Zone Manager (app/zones/geometry.py), Alert Notifier                    *)
(* (app/alerts/notifier.py), detection loop (app/api/websocket.py) and      *)
(* Fusion Engine (app/detection/fusion_engine.py).                         *)
(*                                                                         *)
(* Each subsystem has its own specification over the shared variable list; *)
(* a specification leaves the variables of the other subsystems unchanged. *)
(***************************************************************************)
EXTENDS Integers, Sequences, FiniteSets, TLC

VARIABLES
    \* ---- ZoneManager (geometry.py:77-80) ----
    zones,              \* self.zones: zone id -> Zone
    prepared_polygons,  \* self._prepared_polygons: zone id -> polygon of the index
    object_zones,       \* self._object_zones: tracker id -> set of zone ids
    \* inputs / outputs of the last ZoneManager operation
    zOp,                \* name of the last operation
    zArg,               \* its argument (Zone, zone id or objects list)
    zRaised,            \* TRUE when the operation raised
    zEvents,            \* list returned by check_objects / built by the loop
    zPrevObjectZones,   \* self._object_zones before the last check_objects call
    \* ---- AlertNotifier (notifier.py:68-73) ----
    config_enabled,     \* self.config.enabled
    frame_counts,       \* self._frame_counts: <<tracker id, zone id>> -> count
    last_alerts,        \* self._last_alerts: <<class, zone id>> -> timestamp
    alert_history,      \* self._alert_history
    now,                \* time.time(), seconds
    \* inputs / outputs of the last AlertNotifier operation
    nOp,                \* name of the last operation
    nEvents,            \* events list of the last process_zone_events call
    nAlerts,            \* list it returned
    nPrevLastAlerts,    \* self._last_alerts before the call
    nCalls,             \* process_zone_events calls that followed the single-
                        \* identity sequence enter, inside, inside, ... since
                        \* construction (-1 once a call departed from it)
    \* ---- detection sessions (websocket.py:27-36, 440-517) ----
    running,            \* session -> streamer.running
    lOutcome,           \* session -> how its last step ended: "idle" (never
                        \* started), "started", "ok", "raised", "stopped"
    lEvents,            \* session -> zone_events of its last processed frame
    lInside,            \* session -> <<tracker id, zone id>> pairs whose point was
                        \* inside the zone in its last processed frame
    lPrevInside,        \* session -> the same for the frame before that one
    lSession,           \* session that ran the last loop iteration (0: none)
    detector,           \* per session: streamer.detector ("None" or "loaded")
    video_source,       \* per session: streamer.video_source ("None", "started", "stopped")
    lHandler,           \* per session: detection_websocket is "open" or has "returned"
    \* ---- alert delivery (websocket.py:410-411, notifier.py:195-250) ----
    deliveries,         \* pending send_alerts tasks: for each, the positions in
                        \* self._alert_history of the Alert objects still to send
    dAttempted,         \* positions of the Alert objects send_alert was called on
    dLast,              \* position and return value of the last send_alert call
    \* ---- FusionEngine.process_parallel (fusion_engine.py:62-140) ----
    fPhase,             \* "idle", "awaiting" (a call is suspended), "returned"
    fConfig,            \* self.config
    fBackends,          \* ids of the backends mapping of the last call
    fTasks,             \* tasks: backend id -> status and detections
    fNext,              \* position in tasks.items() of the task awaited
    fResults,           \* results: the DetectionResults collected so far
    fReturn,            \* FusedDetectionResult returned by the last call
    fPrevFailed,        \* backends whose detect call raised in the call before
    \* ---- PipelineManager (pipeline_manager.py:190-194) ----
    importable,         \* backend modules that can be imported in this installation
    pm_backends,        \* self._backends, in insertion order
    pm_fusion_config,   \* self._fusion_engine.config
    active_preset,      \* self._active_preset
    backend_counter,    \* self._backend_counter
    \* inputs / outputs of the last PipelineManager operation
    pOp,                \* name of the last operation
    pArg,               \* its arguments
    pRaised,            \* exception it raised ("none": it returned)
    pReturned,          \* value it returned
    pLog,               \* detectors it made, cleaned up or dispatched detect to
    pIssued,            \* ids of all instances registered so far, oldest first
    \* ---- one run of a fusion strategy (fusion_engine.py:112-140) ----
    sConfig,            \* self.config of the run
    sResults,           \* results as the backends returned them
    sFused,             \* fused_detections
    sAfter,             \* individual_results: the results after the run
    \* ---- one comparison of two boxes (fusion_engine.py:142-163) ----
    iBox1,              \* first box
    iBox2,              \* second box
    iForward,           \* _calculate_iou(box1, box2)
    iBackward           \* _calculate_iou(box2, box1)

zvars == <<zones, prepared_polygons, object_zones, zOp, zArg, zRaised, zEvents,
           zPrevObjectZones>>

nvars == <<config_enabled, frame_counts, last_alerts, alert_history, now, nOp,
           nEvents, nAlerts, nPrevLastAlerts, nCalls>>

lvars == <<running, lOutcome, lEvents, lInside, lPrevInside, lSession,
           detector, video_source, lHandler>>

dvars == <<deliveries, dAttempted, dLast>>

fvars == <<fPhase, fConfig, fBackends, fTasks, fNext, fResults, fReturn, fPrevFailed>>

pvars == <<importable, pm_backends, pm_fusion_config, active_preset, backend_counter,
           pOp, pArg, pRaised, pReturned, pLog, pIssued>>

svars == <<sConfig, sResults, sFused, sAfter>>

ivars == <<iBox1, iBox2, iForward, iBackward>>

vars == <<zvars, nvars, lvars, dvars, fvars, pvars, svars, ivars>>

\* the variables a ZoneManager operation leaves alone
notZone == <<nvars, lvars, dvars, fvars, pvars, svars, ivars>>

\* the variables an AlertNotifier operation leaves alone
notNotifier == <<zvars, lvars, dvars, fvars, pvars, svars, ivars>>

\* the variables a detection session leaves alone
notLoop == <<fvars, pvars, svars, ivars>>

\* the variables a FusionEngine operation leaves alone
notFusion == <<zvars, nvars, lvars, dvars, pvars, svars, ivars>>

\* the variables a PipelineManager operation leaves alone
notPipeline == <<zvars, nvars, lvars, dvars, fvars, svars, ivars>>

\* the variables a run of a strategy or a box comparison leaves alone
notStrategy == <<zvars, nvars, lvars, dvars, fvars, pvars>>

(***************************************************************************)
(* Generic helpers                                                         *)
(***************************************************************************)
Put(f, k, v) == [x \in (DOMAIN f) \cup {k} |-> IF x = k THEN v ELSE f[x]]

Drop(f, k) == [x \in (DOMAIN f) \ {k} |-> f[x]]

EmptyMap == [x \in {} |-> 0]

Range(s) == {s[i] : i \in 1..Len(s)}

RECURSIVE Concat(_)
Concat(ss) == IF ss = <<>> THEN <<>> ELSE Head(ss) \o Concat(Tail(ss))

(***************************************************************************)
(* Geometry: shapely Polygon / prep / contains on exact rationals.         *)
(* A polygon is a sequence of vertices in units of 1/GridUnits; a pixel    *)
(* point (x, y) is normalised by the frame size (check_point, 125-126).    *)
(***************************************************************************)
GridUnits == 20
FrameWidth == 20
FrameHeight == 20

\* Polygon(zone.polygon): shapely raises ValueError for a ring of 1 or 2 points
PolygonRaises(polygon) == Len(polygon) \in {1, 2}

\* cross product of (b - a) and (p - a)
Cross(ax, ay, bx, by, px, py) == (bx - ax) * (py - ay) - (by - ay) * (px - ax)

\* p lies on the closed segment a-b
OnSegment(ax, ay, bx, by, px, py) ==
    /\ Cross(ax, ay, bx, by, px, py) = 0
    /\ (ax <= px /\ px <= bx) \/ (bx <= px /\ px <= ax)
    /\ (ay <= py /\ py <= by) \/ (by <= py /\ py <= ay)

\* the edge a-b crosses the horizontal ray going right from p
RayCrosses(ax, ay, bx, by, px, py) ==
    /\ (ay > py) # (by > py)
    /\ IF by > ay
       THEN (px - ax) * (by - ay) < (py - ay) * (bx - ax)
       ELSE (px - ax) * (by - ay) > (py - ay) * (bx - ax)

\* index of the vertex that follows vertex i on the closed ring
NextVertex(polygon, i) == IF i = Len(polygon) THEN 1 ELSE i + 1

\* prepared.contains(point): the point lies in the interior of the polygon
\* (a point on the boundary is not contained).  Vertices and point are
\* scaled to the common denominator GridUnits * frame size.
Contains(polygon, x, y, w, h) ==
    /\ Len(polygon) >= 3
    /\ \A i \in 1..Len(polygon) :
          ~OnSegment(polygon[i][1] * w, polygon[i][2] * h,
                     polygon[NextVertex(polygon, i)][1] * w,
                     polygon[NextVertex(polygon, i)][2] * h,
                     x * GridUnits, y * GridUnits)
    /\ Cardinality({i \in 1..Len(polygon) :
          RayCrosses(polygon[i][1] * w, polygon[i][2] * h,
                     polygon[NextVertex(polygon, i)][1] * w,
                     polygon[NextVertex(polygon, i)][2] * h,
                     x * GridUnits, y * GridUnits)}) % 2 = 1

(***************************************************************************)
(* Zones                                                                   *)
(***************************************************************************)
Zone(id, name, zone_type, polygon, enabled) ==
    [id |-> id, name |-> name, zone_type |-> zone_type, polygon |-> polygon,
     enabled |-> enabled]

UnitSquare == <<<<0, 0>>, <<GridUnits, 0>>, <<GridUnits, GridUnits>>, <<0, GridUnits>>>>

\* DEFAULT_POOL_ZONES (geometry.py:237-252), coordinates in 1/20
PoolEdge == Zone("pool-edge", "Borde Piscina", "warning",
                 <<<<2, 7>>, <<18, 7>>, <<18, 9>>, <<2, 9>>>>, TRUE)
PoolWater == Zone("pool-water", "Dentro del Agua", "danger",
                  <<<<2, 9>>, <<18, 9>>, <<18, 17>>, <<2, 17>>>>, TRUE)
DEFAULT_POOL_ZONES == <<PoolEdge, PoolWater>>

\* order in which the ids of a Python set of zone ids are iterated
ZoneRank(id) ==
    CASE id = "pool-edge" -> 1
      [] id = "pool-water" -> 2
      [] OTHER -> 3

RECURSIVE SortZones(_)
SortZones(S) ==
    IF S = {} THEN <<>>
    ELSE LET m == CHOOSE z \in S : \A y \in S : ZoneRank(z) <= ZoneRank(y)
         IN  <<m>> \o SortZones(S \ {m})

(***************************************************************************)
(* ZoneManager operations as functions of the state (geometry.py:72-218)   *)
(***************************************************************************)
ZoneEvent(tracker_id, class_name, zone, event_type, timestamp) ==
    [tracker_id |-> tracker_id, class_name |-> class_name, zone_id |-> zone.id,
     zone_name |-> zone.name, zone_type |-> zone.zone_type,
     event_type |-> event_type, timestamp |-> timestamp]

\* add_zone: the registry is written first, then Polygon() may raise
AddZoneResult(zs, pp, zone) ==
    [zones |-> Put(zs, zone.id, zone),
     prepared |-> IF PolygonRaises(zone.polygon) THEN pp
                  ELSE Put(pp, zone.id, zone.polygon),
     raised |-> PolygonRaises(zone.polygon)]

\* the zone leaves the registry but its containment index stays
RemoveZoneResult_KeepsIndex(zs, pp, zone_id) ==
    IF zone_id \in DOMAIN zs
    THEN [zones |-> Drop(zs, zone_id), prepared |-> pp, raised |-> FALSE, found |-> TRUE]
    ELSE [zones |-> zs, prepared |-> pp, raised |-> FALSE, found |-> FALSE]

\* remove_zone: del self.zones[id]; del self._prepared_polygons[id] (KeyError
\* when the index has no entry for the id)
RemoveZoneResult(zs, pp, zone_id) ==
    IF zone_id \in DOMAIN zs
    THEN [zones |-> Drop(zs, zone_id), prepared |-> Drop(pp, zone_id),
          raised |-> zone_id \notin DOMAIN pp, found |-> TRUE]
    ELSE [zones |-> zs, prepared |-> pp, raised |-> FALSE, found |-> FALSE]

\* check_point raises KeyError when an indexed id is missing from self.zones
CheckPointRaises(zs, pp) == \E id \in DOMAIN pp : id \notin DOMAIN zs

\* check_point: ids of the zones returned (enabled and index contains the point)
CheckPoint(zs, pp, x, y, w, h) ==
    {id \in DOMAIN pp : zs[id].enabled /\ Contains(pp[id], x, y, w, h)}

\* the previous membership is not subtracted: every contained zone is "entered"
EnteredZones_NoDiff(current_zones, previous_zones) == current_zones

EnteredZones(current_zones, previous_zones) == current_zones \ previous_zones

StillInside(current_zones, previous_zones) == current_zones \cap previous_zones

\* exits are reported only for zones still in the registry (geometry.py:203)
ExitedZones(zs, current_zones, previous_zones) ==
    {id \in previous_zones \ current_zones : id \in DOMAIN zs}

PreviousZones(oz, tracker_id) ==
    IF tracker_id \in DOMAIN oz THEN oz[tracker_id] ELSE {}

\* one event of the given type per zone id of the (ordered) list
EventsFor(zs, zone_ids, obj, event_type, timestamp) ==
    [i \in 1..Len(zone_ids) |->
        ZoneEvent(obj.tracker_id, obj.class_name_es, zs[zone_ids[i]],
                  event_type, timestamp)]

\* events of one object given its current and previous zone sets
\* (geometry.py:172-213)
DiffEvents(zs, obj, current_zones, previous_zones, timestamp) ==
    EventsFor(zs, SortZones(EnteredZones(current_zones, previous_zones)),
              obj, "enter", timestamp)
    \o EventsFor(zs, SortZones(StillInside(current_zones, previous_zones)),
                 obj, "inside", timestamp)
    \o EventsFor(zs, SortZones(ExitedZones(zs, current_zones, previous_zones)),
                 obj, "exit", timestamp)

\* body of the loop over objects (geometry.py:159-213) for one object
ObjectEvents(zs, pp, oz, obj, w, h, timestamp) ==
    DiffEvents(zs, obj,
               CheckPoint(zs, pp, obj.bottom_center[1], obj.bottom_center[2], w, h),
               PreviousZones(oz, obj.tracker_id), timestamp)

\* current_object_zones: the last object of a tracker id wins
CurrentObjectZones(zs, pp, objects, w, h) ==
    LET ids == {objects[i].tracker_id : i \in 1..Len(objects)}
        last(t) == CHOOSE i \in 1..Len(objects) :
                      /\ objects[i].tracker_id = t
                      /\ \A j \in 1..Len(objects) : objects[j].tracker_id = t => j <= i
    IN  [t \in ids |-> CheckPoint(zs, pp, objects[last(t)].bottom_center[1],
                                  objects[last(t)].bottom_center[2], w, h)]

\* the snapshot is updated, not replaced: identities not listed keep their entry
CheckObjectsResult_KeepsAbsent(zs, pp, oz, objects, w, h, timestamp) ==
    IF objects # <<>> /\ CheckPointRaises(zs, pp)
    THEN [events |-> <<>>, object_zones |-> oz, raised |-> TRUE]
    ELSE [events |-> Concat([i \in 1..Len(objects) |->
                        ObjectEvents(zs, pp, oz, objects[i], w, h, timestamp)]),
          object_zones |->
              [t \in DOMAIN oz \cup DOMAIN CurrentObjectZones(zs, pp, objects, w, h) |->
                  IF t \in DOMAIN CurrentObjectZones(zs, pp, objects, w, h)
                  THEN CurrentObjectZones(zs, pp, objects, w, h)[t] ELSE oz[t]],
          raised |-> FALSE]

\* check_objects: events returned and the new self._object_zones
CheckObjectsResult(zs, pp, oz, objects, w, h, timestamp) ==
    IF objects # <<>> /\ CheckPointRaises(zs, pp)
    THEN [events |-> <<>>, object_zones |-> oz, raised |-> TRUE]
    ELSE [events |-> Concat([i \in 1..Len(objects) |->
                        ObjectEvents(zs, pp, oz, objects[i], w, h, timestamp)]),
          object_zones |-> CurrentObjectZones(zs, pp, objects, w, h),
          raised |-> FALSE]

(***************************************************************************)
(* AlertNotifier (notifier.py:50-165)                                      *)
(***************************************************************************)
min_frames_in_zone == 3
cooldown_seconds == 30
alert_classes == {"persona", "perro", "gato", "niño"}

\* a comparison that regards case: the class name as it is
Lower_CaseKept(c) == c

\* str.lower() on the class names of the model
Lower(c) ==
    CASE c = "Persona" -> "persona"
      [] c = "AUTO" -> "auto"
      [] OTHER -> c

\* dict.get(key, default)
Get(f, k, default) == IF k \in DOMAIN f THEN f[k] ELSE default

\* f"{tracker_id}:{zone_id}": a tracker id is an integer, so the text before
\* the first colon determines the pair
GetKey(tracker_id, zone_id) == <<tracker_id, zone_id>>

\* f"{class_name}:{zone_id}" (class names of the model hold no colon)
GetCooldownKey(class_name, zone_id) == <<class_name, zone_id>>

IsInCooldown(la, class_name, zone_id, t) ==
    (t - Get(la, GetCooldownKey(class_name, zone_id), 0)) < cooldown_seconds

\* the time of the alert is not recorded
UpdateCooldown_NotRecorded(la, class_name, zone_id, t) == la

UpdateCooldown(la, class_name, zone_id, t) ==
    Put(la, GetCooldownKey(class_name, zone_id), t)

CreateAlert(event) ==
    [id |-> <<event.tracker_id, event.zone_id, event.timestamp>>,
     priority |-> IF event.zone_type = "danger" THEN "urgent" ELSE "high",
     zone_type |-> event.zone_type,
     tracker_id |-> event.tracker_id,
     class_name |-> event.class_name,
     timestamp |-> event.timestamp,
     sent |-> FALSE]

\* an inside event without counter starts from 1, as if it had entered
NextFrameCount_InsideStartsAtOne(fc, key, event_type) ==
    IF event_type = "enter" THEN 1 ELSE Get(fc, key, 1) + 1

\* the counter written for a qualifying event (notifier.py:135-138)
NextFrameCount(fc, key, event_type) ==
    IF event_type = "enter" THEN 1 ELSE Get(fc, key, 0) + 1

\* decision that ignores the cooldown
ShouldAlert_NoCooldown(frame_count, in_cooldown) ==
    frame_count >= min_frames_in_zone

\* decision of notifier.py:143-155 once the counter is updated
ShouldAlert(frame_count, in_cooldown) ==
    /\ ~(frame_count < min_frames_in_zone)
    /\ ~in_cooldown
    /\ \/ frame_count = min_frames_in_zone
       \/ (frame_count > min_frames_in_zone /\ ~in_cooldown)

\* one iteration of the loop over events (notifier.py:123-159)
ProcessEvent(st, event, t) ==
    IF event.event_type \notin {"enter", "inside"} THEN st
    ELSE IF Lower(event.class_name) \notin {Lower(c) : c \in alert_classes} THEN st
    ELSE
      LET key == GetKey(event.tracker_id, event.zone_id)
          frame_count == NextFrameCount(st.frame_counts, key, event.event_type)
          counted == [st EXCEPT !.frame_counts = Put(st.frame_counts, key, frame_count)]
      IN  IF ShouldAlert(frame_count,
                         IsInCooldown(st.last_alerts, event.class_name, event.zone_id, t))
          THEN [counted EXCEPT
                  !.alerts = Append(st.alerts, CreateAlert(event)),
                  !.last_alerts = UpdateCooldown(st.last_alerts, event.class_name,
                                                 event.zone_id, t),
                  !.alert_history = Append(st.alert_history, CreateAlert(event))]
          ELSE counted

RECURSIVE ProcessEvents(_, _, _)
ProcessEvents(st, events, t) ==
    IF events = <<>> THEN st
    ELSE ProcessEvents(ProcessEvent(st, Head(events), t), Tail(events), t)

\* keys of the events of the batch (notifier.py:162)
ActiveKeys(events) == {GetKey(events[i].tracker_id, events[i].zone_id) : i \in 1..Len(events)}

\* no clean-up: every counter is kept
KeepActive_KeepsAll(fc, events) == fc

\* counters kept by the clean-up (notifier.py:163)
KeepActive(fc, events) == [k \in (DOMAIN fc) \cap ActiveKeys(events) |-> fc[k]]

\* a call while alerts are disabled still runs the clean-up of the counters
ProcessZoneEventsResult_CleansWhenDisabled(enabled, fc, la, hist, events, t) ==
    IF ~enabled
    THEN [frame_counts |-> KeepActive(fc, events), last_alerts |-> la,
          alert_history |-> hist, alerts |-> <<>>]
    ELSE LET st == ProcessEvents([frame_counts |-> fc, last_alerts |-> la,
                                  alert_history |-> hist, alerts |-> <<>>], events, t)
         IN  [st EXCEPT !.frame_counts = KeepActive(st.frame_counts, events)]

\* process_zone_events: new notifier state and the alerts returned
ProcessZoneEventsResult(enabled, fc, la, hist, events, t) ==
    IF ~enabled
    THEN [frame_counts |-> fc, last_alerts |-> la, alert_history |-> hist, alerts |-> <<>>]
    ELSE LET st == ProcessEvents([frame_counts |-> fc, last_alerts |-> la,
                                  alert_history |-> hist, alerts |-> <<>>], events, t)
         IN  [st EXCEPT !.frame_counts = KeepActive(st.frame_counts, events)]

\* what the POST of send_alert does: answers 200, answers another status, or
\* raises (time-out, connection error)
PostOutcomes == {"200", "500", "exception"}

\* send_alert with the sent flag set whatever the POST did
SendAlertResult_MarksFailed(enabled, alert, outcome) ==
    IF ~enabled THEN [alert |-> alert, ok |-> FALSE]
    ELSE [alert |-> [alert EXCEPT !.sent = TRUE], ok |-> outcome = "200"]

\* send_alert: the Alert object afterwards and the value returned
SendAlertResult(enabled, alert, outcome) ==
    IF ~enabled THEN [alert |-> alert, ok |-> FALSE]
    ELSE IF outcome = "200" THEN [alert |-> [alert EXCEPT !.sent = TRUE], ok |-> TRUE]
    ELSE [alert |-> alert, ok |-> FALSE]

\* the loop awaiting send_alerts(alerts) itself: no task is left behind
CreateSendTask_Awaited(tasks, before, count) == tasks

\* asyncio.create_task(send_alerts(alerts)) for the alerts just appended to
\* the history, which held before entries before the call; no task for an
\* empty list (websocket.py:410-411)
CreateSendTask(tasks, before, count) ==
    IF count = 0 THEN tasks
    ELSE Append(tasks, [i \in 1..count |-> before + i])

\* a send_alerts task after one iteration of its loop (notifier.py:247-249)
AdvanceSendTask(tasks, d) ==
    IF Len(tasks[d]) = 1
    THEN [i \in 1..(Len(tasks) - 1) |-> IF i < d THEN tasks[i] ELSE tasks[i + 1]]
    ELSE [tasks EXCEPT ![d] = Tail(tasks[d])]

(***************************************************************************)
(* FusionEngine (fusion_engine.py:21-463, base_detector.py:78-140).        *)
(* Confidences are integers in units of 1/ConfUnits, weights in units of   *)
(* 1/WeightUnits; an IoU is the pair <<intersection, union>>.              *)
(***************************************************************************)
ConfUnits == 600
WeightUnits == 10

Max(a, b) == IF a >= b THEN a ELSE b

Min(a, b) == IF a <= b THEN a ELSE b

\* list[-limit:] of Python: the last limit entries for a positive limit, the
\* whole list for limit 0, the list without its first -limit entries for a
\* negative limit
LastEntries(list, limit) ==
    LET first == IF limit > 0 THEN Max(Len(list) - limit, 0) + 1
                 ELSE Min(-limit, Len(list)) + 1
    IN  [i \in 1..(Len(list) - first + 1) |-> list[first + i - 1]]

\* get_recent_alerts(limit) (notifier.py:252-254)
GetRecentAlerts(hist, limit) == LastEntries(hist, limit)

\* tracker_id 0 and backend_source "none" stand for None
Detection(class_id, confidence, bbox, keypoints, tracker_id, backend_source) ==
    [class_id |-> class_id, confidence |-> confidence, bbox |-> bbox,
     keypoints |-> keypoints, tracker_id |-> tracker_id,
     backend_source |-> backend_source]

\* stands for None where a Detection is optional
NoDetection == Detection(-1, 0, <<0, 0, 0, 0>>, <<>>, 0, "none")

DetectionResult(backend_id, backend_type, detections) ==
    [backend_id |-> backend_id, backend_type |-> backend_type,
     detections |-> detections]

\* individual_results is kept as the list of the backend ids of the results
FusedDetectionResult(detections, total_time, backends_used, results, strategy) ==
    [detections |-> detections, inference_time_ms |-> total_time,
     backends_used |-> backends_used, individual_results |-> results,
     fusion_strategy |-> strategy]

\* FusionConfig with the defaults of fusion_engine.py:33-38: iou_threshold 0.5
\* is the pair <<1, 2>>, prefer_pose_from None is "none", no backend_weights
FusionConfig(strategy) ==
    [strategy |-> strategy, min_backends_agree |-> 1, iou_threshold |-> <<1, 2>>,
     prefer_pose_from |-> "none", confidence_aggregation |-> "max",
     backend_weights |-> EmptyMap]

BoxArea(box) == (box[3] - box[1]) * (box[4] - box[2])

\* the union counts the shared area twice
CalculateIoU_SharedAreaTwice(box1, box2) ==
    LET x1_i == Max(box1[1], box2[1])
        y1_i == Max(box1[2], box2[2])
        x2_i == Min(box1[3], box2[3])
        y2_i == Min(box1[4], box2[4])
        intersection == (x2_i - x1_i) * (y2_i - y1_i)
        union == BoxArea(box1) + BoxArea(box2)
    IN  IF x2_i <= x1_i \/ y2_i <= y1_i THEN <<0, 1>>
        ELSE IF union > 0 THEN <<intersection, union>> ELSE <<0, 1>>

\* _calculate_iou: <<intersection, union>>, <<0, 1>> for 0.0
CalculateIoU(box1, box2) ==
    LET x1_i == Max(box1[1], box2[1])
        y1_i == Max(box1[2], box2[2])
        x2_i == Min(box1[3], box2[3])
        y2_i == Min(box1[4], box2[4])
        intersection == (x2_i - x1_i) * (y2_i - y1_i)
        union == BoxArea(box1) + BoxArea(box2) - intersection
    IN  IF x2_i <= x1_i \/ y2_i <= y1_i THEN <<0, 1>>
        ELSE IF union > 0 THEN <<intersection, union>> ELSE <<0, 1>>

\* comparisons of two fractions with positive denominators
FracGreater(a, b) == a[1] * b[2] > b[1] * a[2]

FracAtLeast(a, b) == a[1] * b[2] >= b[1] * a[2]

\* the elements of a set of integers in increasing order
RECURSIVE Ascending(_)
Ascending(S) ==
    IF S = {} THEN <<>>
    ELSE LET lo == CHOOSE x \in S : \A y \in S : x <= y
         IN  <<lo>> \o Ascending(S \ {lo})

\* det.backend_source = result.backend_type for every detection of a result
TagDetections(detections, backend_type) ==
    [i \in 1..Len(detections) |-> [detections[i] EXCEPT !.backend_source = backend_type]]

\* _merge_keypoints
MergeKeypoints(cfg, det1, det2) ==
    IF det1 = NoDetection
    THEN (IF det2 # NoDetection THEN det2.keypoints ELSE <<>>)
    ELSE IF det2 = NoDetection THEN det1.keypoints
    ELSE IF /\ cfg.prefer_pose_from # "none"
            /\ det1.backend_source = cfg.prefer_pose_from
            /\ det1.keypoints # <<>>
         THEN det1.keypoints
    ELSE IF /\ cfg.prefer_pose_from # "none"
            /\ det2.backend_source = cfg.prefer_pose_from
            /\ det2.keypoints # <<>>
         THEN det2.keypoints
    ELSE IF Len(det1.keypoints) >= Len(det2.keypoints) THEN det1.keypoints
    ELSE det2.keypoints

\* _aggregate_confidence
AggregateConfidence(cfg, conf1, conf2) ==
    CASE cfg.confidence_aggregation = "max" -> Max(conf1, conf2)
      [] cfg.confidence_aggregation = "min" -> Min(conf1, conf2)
      [] cfg.confidence_aggregation = "mean" -> (conf1 + conf2) \div 2
      [] OTHER -> Max(conf1, conf2)

\* max(d.confidence for d in group)
MaxConfidence(group) ==
    CHOOSE c \in {group[k].confidence : k \in 1..Len(group)} :
        \A k \in 1..Len(group) : group[k].confidence <= c

\* max(group, key=lambda d: d.confidence): the first member with the maximum
BestOfGroup(group) ==
    group[CHOOSE k \in 1..Len(group) :
            /\ group[k].confidence = MaxConfidence(group)
            /\ \A m \in 1..(k - 1) : group[m].confidence < MaxConfidence(group)]

RECURSIVE SumConfidence(_)
SumConfidence(group) ==
    IF group = <<>> THEN 0 ELSE Head(group).confidence + SumConfidence(Tail(group))

\* all_detections of _parallel_merge (fusion_engine.py:372-377)
AllTagged(results) ==
    Concat([r \in 1..Len(results) |->
                TagDetections(results[r].detections, results[r].backend_type)])

\* indexes j > i clustered with detection i (fusion_engine.py:392-399)
MergeMatches(cfg, all, i, used) ==
    {j \in (i + 1)..Len(all) :
        /\ j \notin used
        /\ all[i].class_id = all[j].class_id
        /\ FracAtLeast(CalculateIoU(all[i].bbox, all[j].bbox), cfg.iou_threshold)}

\* group = [det1] + the matching detections in list order
GroupOf(all, i, matches) ==
    <<all[i]>> \o [k \in 1..Cardinality(matches) |-> all[Ascending(matches)[k]]]

\* the first detection of the group is taken as base
MergeGroup_FirstAsBase(cfg, group) ==
    IF Len(group) = 1 THEN group[1]
    ELSE [group[1] EXCEPT
            !.keypoints = MergeKeypoints(cfg, group[1], group[2]),
            !.confidence = MaxConfidence(group)]

\* the detection a group is merged into (fusion_engine.py:402-409)
MergeGroup(cfg, group) ==
    IF Len(group) = 1 THEN group[1]
    ELSE [BestOfGroup(group) EXCEPT
            !.keypoints = MergeKeypoints(cfg, group[1], group[2]),
            !.confidence = MaxConfidence(group)]

\* loop over all_detections from index i on (fusion_engine.py:386-411)
RECURSIVE MergeClusters(_, _, _, _)
MergeClusters(cfg, all, i, used) ==
    IF i > Len(all) THEN <<>>
    ELSE IF i \in used THEN MergeClusters(cfg, all, i + 1, used)
    ELSE LET matches == MergeMatches(cfg, all, i, used)
         IN  <<MergeGroup(cfg, GroupOf(all, i, matches))>>
             \o MergeClusters(cfg, all, i + 1, used \cup matches \cup {i})

\* _parallel_merge
ParallelMerge(cfg, results) == MergeClusters(cfg, AllTagged(results), 1, {})

\* backend id of each entry of all_detections of _consensus_fusion
AllOwners(results) ==
    Concat([r \in 1..Len(results) |->
                [k \in 1..Len(results[r].detections) |-> results[r].backend_id]])

\* indexes j > i counted as agreeing with detection i (fusion_engine.py:277-286)
ConsensusMatches(cfg, all, owners, i, used) ==
    {j \in (i + 1)..Len(all) :
        /\ j \notin used
        /\ owners[i] # owners[j]
        /\ all[i].class_id = all[j].class_id
        /\ FracAtLeast(CalculateIoU(all[i].bbox, all[j].bbox), cfg.iou_threshold)}

\* merged detection of an accepted group (fusion_engine.py:291-301)
ConsensusMerged(cfg, group) ==
    Detection(group[1].class_id, SumConfidence(group) \div Len(group), group[1].bbox,
              MergeKeypoints(cfg, group[1],
                             IF Len(group) > 1 THEN group[2] ELSE NoDetection),
              group[1].tracker_id, "yolo")

\* loop over all_detections from index i on (fusion_engine.py:270-303)
RECURSIVE ConsensusClusters(_, _, _, _, _)
ConsensusClusters(cfg, all, owners, i, used) ==
    IF i > Len(all) THEN <<>>
    ELSE IF i \in used THEN ConsensusClusters(cfg, all, owners, i + 1, used)
    ELSE LET matches == ConsensusMatches(cfg, all, owners, i, used)
             group == GroupOf(all, i, matches)
         IN  IF Len(group) >= cfg.min_backends_agree
             THEN <<ConsensusMerged(cfg, group)>>
                  \o ConsensusClusters(cfg, all, owners, i + 1, used \cup matches \cup {i})
             ELSE ConsensusClusters(cfg, all, owners, i + 1, used \cup matches)

\* _consensus_fusion
ConsensusFusion(cfg, results) ==
    IF Len(results) < 2
    THEN (IF results = <<>> THEN <<>> ELSE results[1].detections)
    ELSE ConsensusClusters(cfg, AllTagged(results), AllOwners(results), 1, {})

\* the first candidate in the list is taken, whatever its IoU
BestMatch_FirstCandidate(cfg, det1, detections2, used2) ==
    LET candidates == {idx \in 1..Len(detections2) :
                          /\ idx \notin used2
                          /\ det1.class_id = detections2[idx].class_id
                          /\ FracGreater(CalculateIoU(det1.bbox, detections2[idx].bbox),
                                         cfg.iou_threshold)}
    IN  IF candidates = {} THEN 0
        ELSE CHOOSE idx \in candidates : \A other \in candidates : idx <= other

\* index in detections2 matched with det1, 0 for no match
\* (fusion_engine.py:178-192): the first one with the highest IoU above the
\* threshold among the unused ones of the same class
BestMatch(cfg, det1, detections2, used2) ==
    LET candidates == {idx \in 1..Len(detections2) :
                          /\ idx \notin used2
                          /\ det1.class_id = detections2[idx].class_id
                          /\ FracGreater(CalculateIoU(det1.bbox, detections2[idx].bbox),
                                         cfg.iou_threshold)}
        iou(idx) == CalculateIoU(det1.bbox, detections2[idx].bbox)
    IN  IF candidates = {} THEN 0
        ELSE CHOOSE idx \in candidates :
                \A other \in candidates :
                    \/ FracGreater(iou(idx), iou(other))
                    \/ (FracAtLeast(iou(idx), iou(other)) /\ idx <= other)

\* first loop of _match_detections from index i of detections1 on
RECURSIVE MatchFrom(_, _, _, _, _)
MatchFrom(cfg, detections1, detections2, i, used2) ==
    IF i > Len(detections1)
    THEN [k \in 1..Cardinality((1..Len(detections2)) \ used2) |->
            <<NoDetection, detections2[Ascending((1..Len(detections2)) \ used2)[k]]>>]
    ELSE LET best == BestMatch(cfg, detections1[i], detections2, used2)
         IN  IF best # 0
             THEN <<<<detections1[i], detections2[best]>>>>
                  \o MatchFrom(cfg, detections1, detections2, i + 1, used2 \cup {best})
             ELSE <<<<detections1[i], NoDetection>>>>
                  \o MatchFrom(cfg, detections1, detections2, i + 1, used2)

\* _match_detections
MatchDetections(cfg, detections1, detections2) ==
    MatchFrom(cfg, detections1, detections2, 1, {})

\* what _cascade_fusion appends for one matched pair (fusion_engine.py:338-360)
CascadePair(cfg, yolo_det, pose_det) ==
    IF yolo_det = NoDetection /\ pose_det = NoDetection THEN <<>>
    ELSE IF yolo_det = NoDetection THEN <<pose_det>>
    ELSE IF pose_det = NoDetection THEN <<yolo_det>>
    ELSE <<Detection(yolo_det.class_id,
                     AggregateConfidence(cfg, yolo_det.confidence, pose_det.confidence),
                     yolo_det.bbox,
                     IF pose_det.keypoints # <<>> THEN pose_det.keypoints
                     ELSE yolo_det.keypoints,
                     IF yolo_det.tracker_id # 0 THEN yolo_det.tracker_id
                     ELSE pose_det.tracker_id,
                     "yolo")>>

\* index of the last result whose backend type is in the set, 0 for none
LastOfType(results, backend_types) ==
    LET found == {r \in 1..Len(results) : results[r].backend_type \in backend_types}
    IN  IF found = {} THEN 0 ELSE CHOOSE r \in found : \A q \in found : q <= r

\* _cascade_fusion
CascadeFusion(cfg, results) ==
    LET yolo == LastOfType(results, {"yolo"})
        pose == LastOfType(results, {"deeplabcut", "sleap"})
    IN  IF yolo = 0
        THEN (IF results = <<>> THEN <<>> ELSE results[1].detections)
        ELSE IF pose = 0 THEN results[yolo].detections
        ELSE LET matches == MatchDetections(cfg, results[yolo].detections,
                                            results[pose].detections)
             IN  Concat([k \in 1..Len(matches) |->
                            CascadePair(cfg, matches[k][1], matches[k][2])])

\* default_weights of _weighted_fusion (fusion_engine.py:424-428)
DefaultWeights ==
    [backend_type \in {"yolo", "deeplabcut", "sleap"} |->
        CASE backend_type = "yolo" -> 10
          [] backend_type = "deeplabcut" -> 12
          [] backend_type = "sleap" -> 11]

\* the detections of a result weighted and tagged (fusion_engine.py:434-439)
WeightedDetections(weights, result) ==
    [i \in 1..Len(result.detections) |->
        [result.detections[i] EXCEPT
            !.confidence = Min(ConfUnits,
                               (result.detections[i].confidence
                                  * Get(weights, result.backend_type, WeightUnits))
                               \div WeightUnits),
            !.backend_source = result.backend_type]]

\* _weighted_fusion
WeightedFusion(cfg, results) ==
    LET weights == IF cfg.backend_weights # EmptyMap THEN cfg.backend_weights
                   ELSE DefaultWeights
    IN  ParallelMerge(cfg,
            <<DetectionResult("weighted", "yolo",
                  Concat([r \in 1..Len(results) |->
                             WeightedDetections(weights, results[r])]))>>)

\* _first_wins_fusion
FirstWinsFusion(cfg, results) ==
    IF results = <<>> THEN <<>>
    ELSE TagDetections(results[1].detections, results[1].backend_type)

\* match self.config.strategy (fusion_engine.py:115-127)
Fuse(cfg, results) ==
    CASE cfg.strategy = "consensus" -> ConsensusFusion(cfg, results)
      [] cfg.strategy = "cascade" -> CascadeFusion(cfg, results)
      [] cfg.strategy = "parallel" -> ParallelMerge(cfg, results)
      [] cfg.strategy = "weighted" -> WeightedFusion(cfg, results)
      [] cfg.strategy = "first_wins" -> FirstWinsFusion(cfg, results)
      [] OTHER -> ParallelMerge(cfg, results)

\* the except clause keeps a failed backend in results with no detections
CollectResult_KeepsFailed(results, backend_id, backend_type, task) ==
    Append(results, DetectionResult(backend_id, backend_type, task.detections))

\* results[backend_id] = await task, or the except clause that skips the
\* backend (fusion_engine.py:105-110)
CollectResult(results, backend_id, backend_type, task) ==
    IF task.status = "done"
    THEN Append(results, DetectionResult(backend_id, backend_type, task.detections))
    ELSE results

\* the value process_parallel returns once every task was awaited
\* (fusion_engine.py:112-140)
FusedResult(cfg, results, total_time) ==
    FusedDetectionResult(Fuse(cfg, results), total_time,
                         [r \in 1..Len(results) |-> results[r].backend_type],
                         [r \in 1..Len(results) |-> results[r].backend_id],
                         cfg.strategy)

\* the value process_parallel returns for an empty backends mapping
\* (fusion_engine.py:84-93)
EmptyFusedResult(cfg) == FusedDetectionResult(<<>>, 0, <<>>, <<>>, cfg.strategy)

(***************************************************************************)
(* The Detection objects of the backend results after a strategy ran: the  *)
(* strategies assign to attributes of the objects they were handed         *)
(* (fusion_engine.py:263, 376, 405-408, 437-438, 461), and                 *)
(* individual_results holds those same objects (fusion_engine.py:139).     *)
(***************************************************************************)
\* position in a group of max(group, key=lambda d: d.confidence)
BestPosition(group) ==
    CHOOSE k \in 1..Len(group) :
        /\ group[k].confidence = MaxConfidence(group)
        /\ \A m \in 1..(k - 1) : group[m].confidence < MaxConfidence(group)

\* all_detections after the assignments best.keypoints = ..., best.confidence
\* = ... of the loop from index i on (fusion_engine.py:386-411)
RECURSIVE AssignBest(_, _, _, _)
AssignBest(cfg, all, i, used) ==
    IF i > Len(all) THEN all
    ELSE IF i \in used THEN AssignBest(cfg, all, i + 1, used)
    ELSE LET matches == MergeMatches(cfg, all, i, used)
             members == <<i>> \o Ascending(matches)
             group == GroupOf(all, i, matches)
             after == IF Len(group) = 1 THEN all
                      ELSE [all EXCEPT ![members[BestPosition(group)]] =
                                          MergeGroup(cfg, group)]
         IN  AssignBest(cfg, after, i + 1, used \cup matches \cup {i})

\* number of detections of the results before result r
RECURSIVE Offset(_, _)
Offset(results, r) ==
    IF r <= 1 THEN 0 ELSE Offset(results, r - 1) + Len(results[r - 1].detections)

\* the results with their detections read back from the flat list
Regroup(results, all) ==
    [r \in 1..Len(results) |->
        [results[r] EXCEPT !.detections =
            SubSeq(all, Offset(results, r) + 1,
                   Offset(results, r) + Len(results[r].detections))]]

\* the results after process_parallel ran the configured strategy on them
IndividualResults(cfg, results) ==
    CASE cfg.strategy = "consensus" ->
            IF Len(results) < 2 THEN results ELSE Regroup(results, AllTagged(results))
      [] cfg.strategy = "cascade" -> results
      [] cfg.strategy = "weighted" ->
            LET weights == IF cfg.backend_weights # EmptyMap THEN cfg.backend_weights
                           ELSE DefaultWeights
                weighted == Concat([r \in 1..Len(results) |->
                                       WeightedDetections(weights, results[r])])
            IN  Regroup(results, AssignBest(cfg, TagDetections(weighted, "yolo"), 1, {}))
      [] cfg.strategy = "first_wins" ->
            IF results = <<>> THEN results
            ELSE [results EXCEPT ![1].detections =
                      TagDetections(results[1].detections, results[1].backend_type)]
      [] OTHER -> Regroup(results, AssignBest(cfg, AllTagged(results), 1, {}))

(***************************************************************************)
(* PipelineManager (pipeline_manager.py:21-347). A backend id              *)
(* f"{type}_{counter}" is the pair <<type, counter>>; the dict of backends *)
(* is the sequence of its values in insertion order; None is "none".       *)
(***************************************************************************)
BackendTypes == {"yolo", "deeplabcut", "sleap"}

BackendInstance(backend_id, backend_type, enabled, model_name, config) ==
    [backend_id |-> backend_id, backend_type |-> backend_type, enabled |-> enabled,
     model_name |-> model_name, config |-> config]

\* an entry of PipelinePreset.backends
BackendSpec(type, model, targets) == [type |-> type, model |-> model, targets |-> targets]

PipelinePreset(id, specs, fusion) == [id |-> id, backends |-> specs, fusion |-> fusion]

PRESETS ==
    [id \in {"home_security", "pet_monitor", "high_precision", "lab_research",
             "wildlife", "industrial", "custom"} |->
        CASE id = "home_security" ->
               PipelinePreset(id, <<BackendSpec("yolo", "yolo11n.pt", "person,dog,cat")>>,
                              FusionConfig("first_wins"))
          [] id = "pet_monitor" ->
               PipelinePreset(id, <<BackendSpec("yolo", "yolo11n.pt", "dog,cat"),
                                    BackendSpec("deeplabcut", "superanimal_quadruped", "")>>,
                              [FusionConfig("cascade") EXCEPT
                                  !.prefer_pose_from = "deeplabcut"])
          [] id = "high_precision" ->
               PipelinePreset(id, <<BackendSpec("yolo", "yolo11m.pt", ""),
                                    BackendSpec("deeplabcut", "superanimal_quadruped", "")>>,
                              [FusionConfig("consensus") EXCEPT
                                  !.min_backends_agree = 2,
                                  !.confidence_aggregation = "mean"])
          [] id = "lab_research" ->
               PipelinePreset(id, <<BackendSpec("sleap", "custom_trained", "")>>,
                              FusionConfig("first_wins"))
          [] id = "wildlife" ->
               PipelinePreset(id, <<BackendSpec("yolo", "yolo11n.pt",
                                                "bird,bear,elephant,zebra,giraffe"),
                                    BackendSpec("deeplabcut", "superanimal_quadruped", "")>>,
                              [FusionConfig("parallel") EXCEPT
                                  !.prefer_pose_from = "deeplabcut"])
          [] id = "industrial" ->
               PipelinePreset(id, <<BackendSpec("yolo", "yolo11m.pt", "")>>,
                              FusionConfig("first_wins"))
          [] OTHER ->
               PipelinePreset(id, <<>>, FusionConfig("parallel"))]

\* f"{backend_type.value}_{self._backend_counter}"
BackendId(backend_type, counter) == <<backend_type, counter>>

\* _create_detector: the class of the detector made, "None" when the module
\* of the backend cannot be imported. yolo_detector is imported without a
\* guard; sleap_detector is no module of the package
CreateDetector(modules, backend_type) ==
    CASE backend_type = "yolo" -> "YOLODetector"
      [] backend_type = "deeplabcut" /\ "deeplabcut" \in modules -> "DeepLabCutDetector"
      [] backend_type = "sleap" /\ "sleap" \in modules -> "SLEAPDetector"
      [] OTHER -> "None"

\* the detector class is a BaseDetector and so has cleanup and detect_async
\* (base_detector.py:212-224); YOLODetector (yolo_detector.py:101-113) has
\* no base class and defines neither
IsBaseDetector(backend_type) == backend_type # "yolo"

\* position of the backend in the dict, 0 when absent
IndexOf(instances, backend_id) ==
    IF \E i \in 1..Len(instances) : instances[i].backend_id = backend_id
    THEN CHOOSE i \in 1..Len(instances) : instances[i].backend_id = backend_id
    ELSE 0

\* dict.pop(key) / del
Without(instances, i) ==
    [j \in 1..(Len(instances) - 1) |-> IF j < i THEN instances[j] ELSE instances[j + 1]]

\* the manager as an operation finds it, with an empty log of what the
\* operation does to detectors and nothing raised
Manager(instances, config, preset, counter) ==
    [backends |-> instances, fusion_config |-> config, active_preset |-> preset,
     backend_counter |-> counter, log |-> <<>>, raised |-> "none", returned |-> "None"]

\* add_backend (pipeline_manager.py:247-284): the counter is advanced before
\* the detector is made. A load_model that raises is caught (266-271) and
\* the instance is registered with the model name asked for, as when the
\* model loads
AddBackendResult(st, modules, backend_type, model_name, config) ==
    LET counter == st.backend_counter + 1
        backend_id == BackendId(backend_type, counter)
    IN  IF CreateDetector(modules, backend_type) = "None"
        THEN [st EXCEPT !.backend_counter = counter, !.raised = "ValueError"]
        ELSE [st EXCEPT
                !.backend_counter = counter,
                !.backends = Append(st.backends,
                                BackendInstance(backend_id, backend_type, TRUE,
                                                model_name, config)),
                !.log = Append(st.log, <<"create", backend_id>>),
                !.returned = "backend_id"]

\* remove_backend without the call of cleanup
RemoveBackendResult_NoCleanup(st, backend_id) ==
    LET i == IndexOf(st.backends, backend_id)
    IN  IF i = 0 THEN [st EXCEPT !.returned = "False"]
        ELSE [st EXCEPT !.backends = Without(st.backends, i), !.returned = "True"]

\* remove_backend (pipeline_manager.py:309-316): the instance is popped, then
\* detector.cleanup() is called, an AttributeError on a YOLODetector
RemoveBackendResult(st, backend_id) ==
    LET i == IndexOf(st.backends, backend_id)
    IN  IF i = 0 THEN [st EXCEPT !.returned = "False"]
        ELSE IF IsBaseDetector(st.backends[i].backend_type)
        THEN [st EXCEPT !.backends = Without(st.backends, i),
                        !.log = Append(st.log, <<"cleanup", backend_id>>),
                        !.returned = "True"]
        ELSE [st EXCEPT !.backends = Without(st.backends, i),
                        !.raised = "AttributeError"]

\* the loop of clear_all_backends over list(self._backends.keys())
RECURSIVE RemoveEach(_, _)
RemoveEach(st, ids) ==
    IF ids = <<>> \/ st.raised # "none" THEN st
    ELSE RemoveEach(RemoveBackendResult(st, Head(ids)), Tail(ids))

\* clear_all_backends that starts the numbering of backends again
ClearAllBackendsResult_ResetsCounter(st) ==
    [st EXCEPT !.backends = <<>>, !.backend_counter = 0]

\* clear_all_backends (pipeline_manager.py:327-331)
ClearAllBackendsResult(st) ==
    LET removed == RemoveEach(st, [i \in 1..Len(st.backends) |-> st.backends[i].backend_id])
    IN  IF removed.raised # "none" THEN removed
        ELSE [removed EXCEPT !.backends = <<>>, !.returned = "None"]

\* the loop of apply_preset over preset.backends (pipeline_manager.py:233-241)
RECURSIVE AddEach(_, _, _)
AddEach(st, modules, specs) ==
    IF specs = <<>> \/ st.raised # "none" THEN st
    ELSE AddEach(AddBackendResult(st, modules, Head(specs).type, Head(specs).model,
                                  Head(specs)),
                 modules, Tail(specs))

\* apply_preset (pipeline_manager.py:214-245)
ApplyPresetResult(st, modules, preset_id) ==
    IF preset_id \notin DOMAIN PRESETS THEN [st EXCEPT !.returned = "False"]
    ELSE LET preset == PRESETS[preset_id]
             cleared == ClearAllBackendsResult(st)
             added == AddEach([cleared EXCEPT !.fusion_config = preset.fusion],
                              modules, preset.backends)
         IN  IF cleared.raised # "none" THEN cleared
             ELSE IF added.raised # "none" THEN added
             ELSE [added EXCEPT !.active_preset = preset_id, !.returned = "True"]

\* enable_backend (pipeline_manager.py:318-325)
EnableBackendResult(st, backend_id, enabled) ==
    LET i == IndexOf(st.backends, backend_id)
    IN  IF i = 0 THEN [st EXCEPT !.returned = "False"]
        ELSE [st EXCEPT !.backends[i].enabled = enabled, !.returned = "True"]

\* get_active_backends (pipeline_manager.py:333-339): the ids of the dict
\* returned, in its order
GetActiveBackends(instances) ==
    LET Enabled(i) == instances[i].enabled
        RECURSIVE From(_)
        From(i) == IF i > Len(instances) THEN <<>>
                   ELSE IF Enabled(i) THEN <<instances[i].backend_id>> \o From(i + 1)
                   ELSE From(i + 1)
    IN  From(1)

\* the tasks process_parallel creates for the mapping it is given
\* (fusion_engine.py:99-102): backend.detect_async(frame) for each backend in
\* turn, an AttributeError at the first YOLODetector
RECURSIVE CreateTasks(_, _)
CreateTasks(st, active) ==
    IF active = <<>> \/ st.raised # "none" THEN st
    ELSE IF IsBaseDetector(Head(active)[1])
    THEN CreateTasks([st EXCEPT !.log = Append(st.log, <<"detect", Head(active)>>)],
                     Tail(active))
    ELSE [st EXCEPT !.raised = "AttributeError"]

\* process_frame (pipeline_manager.py:341-347) up to the creation of the
\* detect tasks
ProcessFrameResult(st) == CreateTasks(st, GetActiveBackends(st.backends))

(***************************************************************************)
(* Inputs of the model                                                     *)
(***************************************************************************)
TrackerIds == {7, 8}

\* class reported by the tracker for each identity (class_name_es)
ClassOf(tracker_id) == IF tracker_id = 7 THEN "persona" ELSE "auto"

\* bottom-centre points in pixels of a FrameWidth x FrameHeight frame:
\* (0.5, 0.5) in pool-water, (0.5, 0.4) in pool-edge, (1.5, 1.5) outside
Points == {<<10, 10>>, <<10, 8>>, <<30, 30>>}

TrackedObject(tracker_id, point) ==
    [tracker_id |-> tracker_id, class_name_es |-> ClassOf(tracker_id),
     bottom_center |-> point]

\* TrackingResult.objects: at most one object per identity
ObjectLists ==
    {<<>>}
    \cup {<<TrackedObject(t, p)>> : t \in TrackerIds, p \in Points}
    \cup {objects \in {<<TrackedObject(t1, p1), TrackedObject(t2, p2)>> :
                          t1 \in TrackerIds, t2 \in TrackerIds, p1 \in Points, p2 \in Points} :
            objects[1].tracker_id < objects[2].tracker_id}

ZoneIds == {"pool-edge", "pool-water", "full"}

Full == Zone("full", "Full", "danger", UnitSquare, TRUE)
FullDisabled == Zone("full", "Full", "danger", UnitSquare, FALSE)
\* upserts with a polygon of two points
BadFull == Zone("full", "Line", "warning", <<<<0, 0>>, <<GridUnits, GridUnits>>>>, TRUE)
BadWater == Zone("pool-water", "Agua", "warning", <<<<2, 9>>, <<18, 17>>>>, FALSE)

ZoneInputs == {PoolWater, Full, FullDisabled, BadFull, BadWater}

(***************************************************************************)
(* Initial state: module state of app/api/routes.py:18-32                  *)
(***************************************************************************)
InitialZones ==
    [id \in {DEFAULT_POOL_ZONES[i].id : i \in 1..Len(DEFAULT_POOL_ZONES)} |->
        (CHOOSE z \in Range(DEFAULT_POOL_ZONES) : z.id = id)]

ZInit ==
    /\ zones = InitialZones
    /\ prepared_polygons = [id \in DOMAIN InitialZones |-> InitialZones[id].polygon]
    /\ object_zones = EmptyMap
    /\ zOp = "init"
    /\ zArg = <<>>
    /\ zRaised = FALSE
    /\ zEvents = <<>>
    /\ zPrevObjectZones = EmptyMap

\* time.time() at start-up: far more than cooldown_seconds after the epoch
StartTime == 1000

NInit ==
    /\ config_enabled = TRUE
    /\ frame_counts = EmptyMap
    /\ last_alerts = EmptyMap
    /\ alert_history = <<>>
    /\ now = StartTime
    /\ nOp = "init"
    /\ nEvents = <<>>
    /\ nAlerts = <<>>
    /\ nPrevLastAlerts = EmptyMap
    /\ nCalls = 0

\* detection sessions: no websocket client has connected yet
Sessions == {1, 2}

LInit ==
    /\ running = [s \in Sessions |-> FALSE]
    /\ lOutcome = [s \in Sessions |-> "idle"]
    /\ lEvents = [s \in Sessions |-> <<>>]
    /\ lInside = [s \in Sessions |-> {}]
    /\ lPrevInside = [s \in Sessions |-> {}]
    /\ lSession = 0
    /\ detector = [s \in Sessions |-> "None"]
    /\ video_source = [s \in Sessions |-> "None"]
    /\ lHandler = [s \in Sessions |-> "open"]

\* no send_alerts task has been created
NoSend == [position |-> 0, ok |-> FALSE]

DInit ==
    /\ deliveries = <<>>
    /\ dAttempted = {}
    /\ dLast = NoSend

\* backends registered for fusion: a YOLO and a DeepLabCut detector
BackendIds == {"yolo_0", "dlc_1"}

BackendTypeOf(backend_id) == IF backend_id = "yolo_0" THEN "yolo" ELSE "deeplabcut"

\* backends mappings handed to process_parallel (dict order)
BackendMappings == {<<>>, <<"yolo_0">>, <<"yolo_0", "dlc_1">>}

\* detections a detect call can return: a person seen by both backends with
\* boxes of IoU 0.8 (keypoints only from DeepLabCut) and a dog seen by one
PersonByYolo == Detection(0, 480, <<0, 0, 10, 10>>, <<>>, 0, "none")
PersonByDlc == Detection(0, 540, <<0, 0, 10, 8>>, <<"nose">>, 0, "none")
DogByDlc == Detection(16, 420, <<20, 20, 30, 30>>, <<"snout">>, 0, "none")

BackendOutputs(backend_id) ==
    IF backend_id = "yolo_0" THEN {<<>>, <<PersonByYolo>>}
    ELSE {<<>>, <<PersonByDlc>>, <<DogByDlc>>}

Strategies == {"consensus", "cascade", "parallel", "weighted", "first_wins"}

FusionConfigs == {FusionConfig(strategy) : strategy \in Strategies}

\* elapsed time in ms measured by process_parallel around dispatch and awaits
MaxTotalTimeMs == 2

\* fReturn while no call has returned
NoReturn == FusedDetectionResult(<<>>, -1, <<>>, <<>>, "none")

\* a task created by process_parallel (fusion_engine.py:99-102)
Task(status, detections) == [status |-> status, detections |-> detections]

FInit ==
    /\ fPhase = "idle"
    /\ fConfig = FusionConfig("parallel")
    /\ fBackends = <<>>
    /\ fTasks = EmptyMap
    /\ fNext = 0
    /\ fResults = <<>>
    /\ fReturn = NoReturn
    /\ fPrevFailed = {}

\* PipelineManager.__init__; of the optional backends the package holds the
\* deeplabcut_detector module
PInit ==
    /\ importable = {"deeplabcut"}
    /\ pm_backends = <<>>
    /\ pm_fusion_config = FusionConfig("parallel")
    /\ active_preset = "none"
    /\ backend_counter = 0
    /\ pOp = "init"
    /\ pArg = <<>>
    /\ pRaised = "none"
    /\ pReturned = "None"
    /\ pLog = <<>>
    /\ pIssued = <<>>

\* detections of the strategy runs: besides the person seen by both backends
\* (IoU 0.8) a pose detection of the person with IoU exactly 0.5 and one
\* with IoU 0.9 to the YOLO box, and a dog seen by YOLO
PersonHalf == Detection(0, 300, <<0, 0, 10, 5>>, <<"hip">>, 0, "none")
PersonClose == Detection(0, 360, <<0, 0, 10, 9>>, <<"ear">>, 0, "none")
DogByYolo == Detection(16, 450, <<40, 40, 50, 50>>, <<>>, 0, "none")

\* the person as a YOLO pose model reports it, with two keypoints
PersonPoseByYolo == Detection(0, 420, <<0, 0, 10, 10>>, <<"nose", "hip">>, 0, "none")

\* two pose detections of the person: the upper overlaps the YOLO box by 0.6
\* and the top by 0.4, and they overlap each other by 2/3
PersonUpper == Detection(0, 540, <<0, 0, 10, 6>>, <<"nose">>, 0, "none")
PersonTop == Detection(0, 300, <<0, 0, 10, 4>>, <<"ear">>, 0, "none")

YoloOutputs == {<<>>, <<PersonByYolo>>, <<PersonByYolo, DogByYolo>>, <<PersonPoseByYolo>>}

PoseOutputs ==
    {<<>>, <<PersonByDlc>>, <<PersonHalf>>, <<DogByDlc>>, <<PersonByDlc, PersonClose>>,
     <<PersonHalf, PersonByDlc>>, <<PersonByDlc, DogByDlc>>,
     <<PersonUpper, PersonTop>>}

YoloResults == {DetectionResult("yolo_0", "yolo", d) : d \in YoloOutputs}

PoseResults == {DetectionResult("dlc_1", "deeplabcut", d) : d \in PoseOutputs}

\* the results dict of a call, in the order of the backends mapping
ResultLists ==
    {<<>>} \cup {<<y>> : y \in YoloResults} \cup {<<q>> : q \in PoseResults}
    \cup {<<y, q>> : y \in YoloResults, q \in PoseResults}
    \cup {<<q, y>> : y \in YoloResults, q \in PoseResults}

\* backend_weights: none configured, or only YOLO weighted by 0.5
WeightChoices == {EmptyMap, Put(EmptyMap, "yolo", 5)}

\* largest min_backends_agree configured
MaxAgree == 3

\* confidence_aggregation modes configured
Aggregations == {"max", "mean", "min"}

\* prefer_pose_from: None, or the DeepLabCut backend
PoseChoices == {"none", "deeplabcut"}

StrategyConfigs ==
    {[FusionConfig(strategy) EXCEPT !.min_backends_agree = agree,
                                    !.confidence_aggregation = aggregation,
                                    !.prefer_pose_from = pose,
                                    !.backend_weights = weights] :
        strategy \in Strategies, agree \in 1..MaxAgree, aggregation \in Aggregations,
        pose \in PoseChoices, weights \in WeightChoices}

\* no strategy has run
SInit ==
    /\ sConfig = FusionConfig("parallel")
    /\ sResults = <<>>
    /\ sFused = <<>>
    /\ sAfter = <<>>

\* largest coordinate of the boxes compared
MaxCoord == 3

\* integer-corner boxes with x1 < x2 and y1 < y2
Boxes ==
    {box \in (0..MaxCoord) \X (0..MaxCoord) \X (0..MaxCoord) \X (0..MaxCoord) :
        box[1] < box[3] /\ box[2] < box[4]}

UnitBox == <<0, 0, 1, 1>>

\* the unit box compared with itself
IInit ==
    /\ iBox1 = UnitBox
    /\ iBox2 = UnitBox
    /\ iForward = <<1, 1>>
    /\ iBackward = <<1, 1>>

Init == ZInit /\ NInit /\ LInit /\ DInit /\ FInit /\ PInit /\ SInit /\ IInit

(***************************************************************************)
(* ZoneManager actions                                                     *)
(***************************************************************************)
\* add_zone(zone) as called by create_zone / update_zone / the add_zone command
AddZone(zone) ==
    \E r \in {AddZoneResult(zones, prepared_polygons, zone)} :
        /\ zones' = r.zones
        /\ prepared_polygons' = r.prepared
        /\ zRaised' = r.raised
        /\ zOp' = "add_zone"
        /\ zArg' = zone
        /\ zEvents' = <<>>
        /\ zPrevObjectZones' = EmptyMap
        /\ UNCHANGED object_zones
        /\ UNCHANGED notZone

RemoveZone(zone_id) ==
    \E r \in {RemoveZoneResult(zones, prepared_polygons, zone_id)} :
        /\ zones' = r.zones
        /\ prepared_polygons' = r.prepared
        /\ zRaised' = r.raised
        /\ zOp' = "remove_zone"
        /\ zArg' = zone_id
        /\ zEvents' = <<>>
        /\ zPrevObjectZones' = EmptyMap
        /\ UNCHANGED object_zones
        /\ UNCHANGED notZone

ClearZones ==
    /\ zones' = EmptyMap
    /\ prepared_polygons' = EmptyMap
    /\ object_zones' = EmptyMap
    /\ zRaised' = FALSE
    /\ zOp' = "clear_zones"
    /\ zArg' = <<>>
    /\ zEvents' = <<>>
    /\ zPrevObjectZones' = EmptyMap
    /\ UNCHANGED notZone

\* check_objects(objects, frame_width, frame_height, timestamp)
CheckObjects(objects) ==
    \E r \in {CheckObjectsResult(zones, prepared_polygons, object_zones, objects,
                                FrameWidth, FrameHeight, now)} :
        /\ object_zones' = r.object_zones
        /\ zEvents' = r.events
        /\ zRaised' = r.raised
        /\ zOp' = "check_objects"
        /\ zArg' = objects
        /\ zPrevObjectZones' = object_zones
        /\ UNCHANGED <<zones, prepared_polygons>>
        /\ UNCHANGED notZone

NextZones ==
    \/ \E zone \in ZoneInputs : AddZone(zone)
    \/ \E zone_id \in ZoneIds : RemoveZone(zone_id)
    \/ ClearZones
    \/ \E objects \in ObjectLists : CheckObjects(objects)

SpecZones == Init /\ [][NextZones]_vars

(***************************************************************************)
(* AlertNotifier actions                                                   *)
(***************************************************************************)
TickSeconds == 15
MaxTicks == 3
MaxHistory == 2
MaxFrameCount == 5

\* zone events handed to the notifier: identity 7 is a "persona", identity 8
\* a "persona" or an "auto"; all in the zone pool-water
NotifierEvents(t) ==
    {ZoneEvent(tracker_id, class_name, PoolWater, event_type, t) :
        tracker_id \in TrackerIds, class_name \in {"persona", "auto"},
        event_type \in {"enter", "inside", "exit"}}
    \ {ZoneEvent(7, "auto", PoolWater, event_type, t) :
            event_type \in {"enter", "inside", "exit"}}

\* batches: at most one event per identity (one zone), in either order
EventBatches(t) ==
    {<<>>}
    \cup {<<e>> : e \in NotifierEvents(t)}
    \cup {b \in {<<e1, e2>> : e1 \in NotifierEvents(t), e2 \in NotifierEvents(t)} :
            b[1].tracker_id # b[2].tracker_id}

\* the call continues the sequence enter, inside, inside, ... of identity 7
FollowsSequence(events) ==
    /\ nCalls >= 0
    /\ config_enabled
    /\ Len(events) = 1
    /\ events[1].tracker_id = 7
    /\ events[1].event_type = (IF nCalls = 0 THEN "enter" ELSE "inside")

\* process_zone_events(events)
ProcessZoneEvents(events) ==
    \E r \in {ProcessZoneEventsResult(config_enabled, frame_counts, last_alerts,
                                      alert_history, events, now)} :
        /\ Len(r.alert_history) <= MaxHistory
        /\ \A k \in DOMAIN r.frame_counts : r.frame_counts[k] <= MaxFrameCount
        /\ frame_counts' = r.frame_counts
        /\ last_alerts' = r.last_alerts
        /\ alert_history' = r.alert_history
        /\ nAlerts' = r.alerts
        /\ nOp' = "process_zone_events"
        /\ nEvents' = events
        /\ nPrevLastAlerts' = last_alerts
        /\ nCalls' = IF FollowsSequence(events) THEN nCalls + 1 ELSE -1
        /\ UNCHANGED <<config_enabled, now>>
        /\ UNCHANGED notNotifier

\* the clock advances
Tick ==
    /\ now < StartTime + MaxTicks * TickSeconds
    /\ now' = now + TickSeconds
    /\ UNCHANGED <<config_enabled, frame_counts, last_alerts, alert_history, nOp,
                   nEvents, nAlerts, nPrevLastAlerts, nCalls>>
    /\ UNCHANGED notNotifier

NextNotifier ==
    \/ \E events \in EventBatches(now) : ProcessZoneEvents(events)
    \/ Tick

SpecNotifier == Init /\ [][NextNotifier]_vars

\* labels as detectors spell them: the allow-listed "persona" in two
\* spellings and the class "auto", which is not in the list
LabelSpellings == {"persona", "Persona", "auto"}

\* batches that mix spellings: one event of identity 8 under any label,
\* alone or after an inside event of identity 7, a "persona"
LabelBatches(t) ==
    {<<ZoneEvent(8, class_name, PoolWater, event_type, t)>> :
        class_name \in LabelSpellings, event_type \in {"enter", "inside", "exit"}}
    \cup {<<ZoneEvent(7, "persona", PoolWater, type7, t),
            ZoneEvent(8, class_name, PoolWater, event_type, t)>> :
            type7 \in {"inside"}, class_name \in LabelSpellings,
            event_type \in {"enter", "inside", "exit"}}

NextLabels ==
    \/ \E events \in LabelBatches(now) : ProcessZoneEvents(events)
    \/ Tick

SpecLabels == Init /\ [][NextLabels]_vars

(***************************************************************************)
(* Detection sessions (websocket.py:27-36, 277-517): every websocket       *)
(* client gets its own DetectionStreamer and tracker; all of them use the  *)
(* ZoneManager and AlertNotifier of routes.py:20-21.                       *)
(***************************************************************************)
\* where a frame's processing raises: nowhere, in detector / tracker (before
\* the zone check), or while sending the result (after the alert processing)
Faults == {"none", "detect", "send"}

\* tracking_result.objects of a frame; the tracker of each session numbers
\* its identities on its own
LoopObjectLists ==
    {<<>>, <<TrackedObject(7, <<10, 10>>)>>, <<TrackedObject(7, <<30, 30>>)>>,
     <<TrackedObject(8, <<30, 30>>)>>}

\* zone check of one iteration (websocket.py:395-403): check_objects is
\* called only for a non-empty objects list
ZoneCheck(zs, pp, oz, objects, t) ==
    IF objects # <<>>
    THEN CheckObjectsResult(zs, pp, oz, objects, FrameWidth, FrameHeight, t)
    ELSE [events |-> <<>>, object_zones |-> oz, raised |-> FALSE]

\* <<tracker id, zone id>> pairs of the frame: the zones each object is in
InsidePairs(zs, pp, objects) ==
    UNION {{<<objects[i].tracker_id, id>> :
                id \in CheckPoint(zs, pp, objects[i].bottom_center[1],
                                  objects[i].bottom_center[2], FrameWidth, FrameHeight)} :
           i \in 1..Len(objects)}

\* DetectionStreamer.stop (websocket.py:434-438): what it does to the video
\* source; the detector is not touched
StopVideoSource(source) == IF source = "started" THEN "stopped" ELSE source

\* initialize (websocket.py:38-75): the detector's model is loaded, then the
\* video source is made and started
Initialize(s) ==
    /\ detector' = [detector EXCEPT ![s] = "loaded"]
    /\ UNCHANGED <<lEvents, lInside, lPrevInside, lSession, lHandler>>
    /\ UNCHANGED <<zvars, nvars, dvars>>
    /\ UNCHANGED notLoop

\* detection_websocket: the client sent "start", run_detection_loop begins
StartSession(s) ==
    /\ lOutcome[s] = "idle"
    /\ running' = [running EXCEPT ![s] = TRUE]
    /\ lOutcome' = [lOutcome EXCEPT ![s] = "started"]
    /\ video_source' = [video_source EXCEPT ![s] = "started"]
    /\ Initialize(s)

\* the same when create_video_source or its start failed: the streamer keeps
\* no video source and takes its frames from the client (websocket.py:61-68)
StartSessionWithoutVideo(s) ==
    /\ lOutcome[s] = "idle"
    /\ running' = [running EXCEPT ![s] = TRUE]
    /\ lOutcome' = [lOutcome EXCEPT ![s] = "started"]
    /\ video_source' = [video_source EXCEPT ![s] = "None"]
    /\ Initialize(s)

\* the client sent "stop" or disconnected: streamer.stop()
StopSession(s) ==
    /\ running[s]
    /\ running' = [running EXCEPT ![s] = FALSE]
    /\ lOutcome' = [lOutcome EXCEPT ![s] = "stopped"]
    /\ video_source' = [video_source EXCEPT ![s] = StopVideoSource(video_source[s])]
    /\ UNCHANGED <<lEvents, lInside, lPrevInside, lSession, detector, lHandler>>
    /\ UNCHANGED <<zvars, nvars, dvars>>
    /\ UNCHANGED notLoop

\* the loop has ended (stopped, or it raised and cleared running): the
\* finally clauses of detection_websocket call streamer.stop() and the
\* handler returns (websocket.py:499-517)
HandlerReturns(s) ==
    /\ lOutcome[s] # "idle"
    /\ ~running[s]
    /\ lHandler[s] = "open"
    /\ lHandler' = [lHandler EXCEPT ![s] = "returned"]
    /\ video_source' = [video_source EXCEPT ![s] = StopVideoSource(video_source[s])]
    /\ UNCHANGED <<running, lOutcome, lEvents, lInside, lPrevInside, lSession, detector>>
    /\ UNCHANGED <<zvars, nvars, dvars>>
    /\ UNCHANGED notLoop

\* process_command "add_zone" of a connected client (websocket.py:121-130)
AddZoneCommand(s, zone) ==
    /\ running[s]
    /\ AddZone(zone)

\* the iteration raised before the zone check: the except clause around the
\* while loop ends the loop (websocket.py:424-432)
FrameRaisesEarly(s) ==
    /\ running' = [running EXCEPT ![s] = FALSE]
    /\ lOutcome' = [lOutcome EXCEPT ![s] = "raised"]
    /\ lSession' = s
    /\ UNCHANGED <<lEvents, lInside, lPrevInside, detector, video_source, lHandler>>
    /\ UNCHANGED <<zvars, nvars, dvars>>
    /\ UNCHANGED notLoop

\* zone check, alert processing and sending of one iteration
FrameProcessed(s, objects, fault, zr, nr) ==
    /\ Len(nr.alert_history) <= MaxHistory
    /\ \A k \in DOMAIN nr.frame_counts : nr.frame_counts[k] <= MaxFrameCount
    /\ object_zones' = zr.object_zones
    /\ IF objects # <<>>
       THEN /\ zOp' = "check_objects"
            /\ zArg' = objects
            /\ zRaised' = FALSE
            /\ zEvents' = zr.events
            /\ zPrevObjectZones' = object_zones
       ELSE UNCHANGED <<zOp, zArg, zRaised, zEvents, zPrevObjectZones>>
    /\ UNCHANGED <<zones, prepared_polygons>>
    /\ frame_counts' = nr.frame_counts
    /\ last_alerts' = nr.last_alerts
    /\ alert_history' = nr.alert_history
    /\ nAlerts' = nr.alerts
    /\ nOp' = "process_zone_events"
    /\ nEvents' = zr.events
    /\ nPrevLastAlerts' = last_alerts
    /\ nCalls' = IF FollowsSequence(zr.events) THEN nCalls + 1 ELSE -1
    /\ UNCHANGED <<config_enabled, now>>
    /\ lEvents' = [lEvents EXCEPT ![s] = zr.events]
    /\ lInside' = [lInside EXCEPT ![s] = InsidePairs(zones, prepared_polygons, objects)]
    /\ lPrevInside' = [lPrevInside EXCEPT ![s] = lInside[s]]
    /\ lSession' = s
    /\ running' = [running EXCEPT ![s] = (fault = "none")]
    /\ lOutcome' = [lOutcome EXCEPT ![s] = IF fault = "none" THEN "ok" ELSE "raised"]
    /\ deliveries' = CreateSendTask(deliveries, Len(alert_history), Len(nr.alerts))
    /\ UNCHANGED <<dAttempted, dLast>>
    /\ UNCHANGED <<detector, video_source, lHandler>>
    /\ UNCHANGED notLoop

\* one iteration of the while loop of run_detection_loop that got a frame
\* (websocket.py:298-421) with the exception handling around the loop
\* (websocket.py:297, 424-432)
LoopFrame(s, objects, fault) ==
    /\ running[s]
    /\ IF fault = "detect"
       THEN FrameRaisesEarly(s)
       ELSE \E zr \in {ZoneCheck(zones, prepared_polygons, object_zones, objects, now)} :
              IF zr.raised
              THEN FrameRaisesEarly(s)
              ELSE \E nr \in {ProcessZoneEventsResult(config_enabled, frame_counts,
                                    last_alerts, alert_history, zr.events, now)} :
                      FrameProcessed(s, objects, fault, zr, nr)

NextLoop ==
    \/ \E s \in Sessions : StartSession(s)
    \/ \E s \in Sessions : StopSession(s)
    \/ \E s \in Sessions : AddZoneCommand(s, Full)
    \/ \E s \in Sessions, objects \in LoopObjectLists, fault \in Faults :
          LoopFrame(s, objects, fault)

SpecLoop == Init /\ [][NextLoop]_vars

\* the life of one websocket session from "start" to the handler's return
LifecycleSession == 2

NextSession ==
    \/ StartSession(LifecycleSession)
    \/ StartSessionWithoutVideo(LifecycleSession)
    \/ StopSession(LifecycleSession)
    \/ \E objects \in LoopObjectLists, fault \in Faults :
          LoopFrame(LifecycleSession, objects, fault)
    \/ HandlerReturns(LifecycleSession)

SpecSession == Init /\ [][NextSession]_vars

(***************************************************************************)
(* Alert delivery: the send_alerts tasks the loop creates run beside it    *)
(* (websocket.py:410-411, notifier.py:195-250), the clock advances and the *)
(* alert configuration is edited (routes.py:462-480).                      *)
(***************************************************************************)
\* the session whose loop creates the tasks
DeliverySession == 1

\* one iteration of the loop of a pending send_alerts task: send_alert on
\* its next Alert object, which is the object the history holds
SendAlert(d, outcome) ==
    /\ d \in 1..Len(deliveries)
    /\ \E position \in {Head(deliveries[d])} :
       \E r \in {SendAlertResult(config_enabled, alert_history[position], outcome)} :
          /\ alert_history' = [alert_history EXCEPT ![position] = r.alert]
          /\ dAttempted' = dAttempted \cup {position}
          /\ dLast' = [position |-> position, ok |-> r.ok]
    /\ deliveries' = AdvanceSendTask(deliveries, d)
    /\ nOp' = "send_alert"
    /\ UNCHANGED <<config_enabled, frame_counts, last_alerts, now, nEvents, nAlerts,
                   nPrevLastAlerts, nCalls>>
    /\ UNCHANGED <<zvars, lvars, fvars, pvars, svars, ivars>>

\* PUT /alerts/config with only the enabled field set
UpdateAlertConfig(enabled) ==
    /\ config_enabled' = enabled
    /\ nOp' = "update_alert_config"
    /\ UNCHANGED <<frame_counts, last_alerts, alert_history, now, nEvents, nAlerts,
                   nPrevLastAlerts, nCalls>>
    /\ UNCHANGED notNotifier

NextDelivery ==
    \/ StartSession(DeliverySession)
    \/ \E objects \in LoopObjectLists : LoopFrame(DeliverySession, objects, "none")
    \/ Tick
    \/ \E d \in 1..MaxHistory, outcome \in PostOutcomes : SendAlert(d, outcome)
    \/ \E enabled \in BOOLEAN : UpdateAlertConfig(enabled)

SpecDelivery == Init /\ [][NextDelivery]_vars

\* batches of the events of identity 7, a "persona", in the zone pool-water
SwitchBatches(t) ==
    {<<>>} \cup {<<ZoneEvent(7, "persona", PoolWater, event_type, t)>> :
                    event_type \in {"enter", "inside", "exit"}}

\* the notifier called while alerts are switched off and on again
NextSwitch ==
    \/ \E events \in SwitchBatches(now) : ProcessZoneEvents(events)
    \/ Tick
    \/ \E enabled \in BOOLEAN : UpdateAlertConfig(enabled)

SpecSwitch == Init /\ [][NextSwitch]_vars

(***************************************************************************)
(* FusionEngine actions: one process_parallel call at a time, its steps    *)
(* interleaved with the detect calls running in the executor.              *)
(***************************************************************************)
\* update_config(config)
UpdateConfig(config) ==
    /\ fConfig # config
    /\ fConfig' = config
    /\ UNCHANGED <<fPhase, fBackends, fTasks, fNext, fResults, fReturn, fPrevFailed>>
    /\ UNCHANGED notFusion

\* backends whose task raised in the call that just ended
FailedBackends == {b \in DOMAIN fTasks : fTasks[b].status = "raised"}

\* process_parallel(frame, backends) up to its first await: the early return
\* for an empty mapping, or the creation of one task per backend
\* (fusion_engine.py:84-107)
ProcessParallel(backends) ==
    /\ fPhase # "awaiting"
    /\ fBackends' = backends
    /\ fResults' = <<>>
    /\ fPrevFailed' = FailedBackends
    /\ IF backends = <<>>
       THEN /\ fPhase' = "returned"
            /\ fTasks' = EmptyMap
            /\ fNext' = 0
            /\ fReturn' = EmptyFusedResult(fConfig)
       ELSE /\ fPhase' = "awaiting"
            /\ fTasks' = [b \in Range(backends) |-> Task("pending", <<>>)]
            /\ fNext' = 1
            /\ fReturn' = NoReturn
    /\ UNCHANGED fConfig
    /\ UNCHANGED notFusion

\* the detect call of a backend returns its detections or raises
\* (base_detector.py:212-220)
DetectFinishes(backend_id, status, detections) ==
    /\ fPhase = "awaiting"
    /\ backend_id \in DOMAIN fTasks
    /\ fTasks[backend_id].status = "pending"
    /\ fTasks' = [fTasks EXCEPT ![backend_id] = Task(status, detections)]
    /\ UNCHANGED <<fPhase, fConfig, fBackends, fNext, fResults, fReturn, fPrevFailed>>
    /\ UNCHANGED notFusion

\* the detect call of a backend blocks for ever: its task never completes
DetectHangs(backend_id) ==
    /\ fPhase = "awaiting"
    /\ backend_id \in DOMAIN fTasks
    /\ fTasks[backend_id].status = "pending"
    /\ fTasks' = [fTasks EXCEPT ![backend_id] = Task("hung", <<>>)]
    /\ UNCHANGED <<fPhase, fConfig, fBackends, fNext, fResults, fReturn, fPrevFailed>>
    /\ UNCHANGED notFusion

\* "await task" resumes for the task awaited (fusion_engine.py:105-110); after
\* the last one the results are fused and returned (fusion_engine.py:112-140)
AwaitTask(total_time) ==
    /\ fPhase = "awaiting"
    /\ fTasks[fBackends[fNext]].status \in {"done", "raised"}
    /\ \E results \in {CollectResult(fResults, fBackends[fNext],
                                     BackendTypeOf(fBackends[fNext]),
                                     fTasks[fBackends[fNext]])} :
          /\ fResults' = results
          /\ IF fNext = Len(fBackends)
             THEN /\ fPhase' = "returned"
                  /\ fReturn' = FusedResult(fConfig, results, total_time)
                  /\ fNext' = 0
             ELSE /\ fNext' = fNext + 1
                  /\ UNCHANGED <<fPhase, fReturn>>
    /\ UNCHANGED <<fConfig, fBackends, fTasks, fPrevFailed>>
    /\ UNCHANGED notFusion

NextFusion ==
    \/ \E config \in FusionConfigs : UpdateConfig(config)
    \/ \E backends \in BackendMappings : ProcessParallel(backends)
    \/ \E backend_id \in BackendIds : \E detections \in BackendOutputs(backend_id) :
          DetectFinishes(backend_id, "done", detections)
    \/ \E backend_id \in BackendIds : DetectFinishes(backend_id, "raised", <<>>)
    \/ \E backend_id \in BackendIds : DetectHangs(backend_id)
    \/ \E total_time \in 1..MaxTotalTimeMs : AwaitTask(total_time)

SpecFusion == Init /\ [][NextFusion]_vars

(***************************************************************************)
(* Properties of the Zone Manager                                          *)
(***************************************************************************)
\* number of events of the last call for one identity, zone and kind
CountEvents(tracker_id, zone_id, event_type) ==
    Cardinality({i \in 1..Len(zEvents) :
        /\ zEvents[i].tracker_id = tracker_id
        /\ zEvents[i].zone_id = zone_id
        /\ zEvents[i].event_type = event_type})

\* C: the enabled zones whose containment index contains the reference point
ContainingNow(obj) ==
    {id \in ZoneIds :
        /\ id \in DOMAIN zones
        /\ id \in DOMAIN prepared_polygons
        /\ zones[id].enabled
        /\ Contains(prepared_polygons[id], obj.bottom_center[1], obj.bottom_center[2],
                    FrameWidth, FrameHeight)}

\* P: the membership stored for the identity by the previous call
StoredBefore(obj) ==
    IF obj.tracker_id \in DOMAIN zPrevObjectZones
    THEN zPrevObjectZones[obj.tracker_id] ELSE {}

ExpectedCount(obj, zone_id, event_type) ==
    IF \/ event_type = "enter" /\ zone_id \in ContainingNow(obj) \ StoredBefore(obj)
       \/ event_type = "inside" /\ zone_id \in ContainingNow(obj) \cap StoredBefore(obj)
       \/ /\ event_type = "exit"
          /\ zone_id \in StoredBefore(obj) \ ContainingNow(obj)
          /\ zone_id \in DOMAIN zones
    THEN 1 ELSE 0

\* C4: the events check_objects emits for an identity of its objects list are
\* exactly one enter per zone of C \ P, one inside per zone of C \cap P and one
\* exit per zone of P \ C that is still registered, and nothing else; no event
\* names an identity outside the list.
C4_EventsAreTheMembershipDiff ==
    (zOp = "check_objects" /\ ~zRaised) =>
        /\ \A i \in 1..Len(zArg) : \A zone_id \in ZoneIds :
              \A event_type \in {"enter", "inside", "exit"} :
                 CountEvents(zArg[i].tracker_id, zone_id, event_type)
                    = ExpectedCount(zArg[i], zone_id, event_type)
        /\ \A j \in 1..Len(zEvents) :
              /\ \E i \in 1..Len(zArg) : zArg[i].tracker_id = zEvents[j].tracker_id
              /\ zEvents[j].zone_id \in ZoneIds
              /\ zEvents[j].event_type \in {"enter", "inside", "exit"}

\* a jump from one zone into a disjoint one: one exit, one enter, no inside
C4_Witness ==
    /\ zOp = "check_objects"
    /\ ~zRaised
    /\ \E i \in 1..Len(zArg) :
          /\ CountEvents(zArg[i].tracker_id, "pool-edge", "exit") = 1
          /\ CountEvents(zArg[i].tracker_id, "pool-water", "enter") = 1
          /\ \A zone_id \in ZoneIds : CountEvents(zArg[i].tracker_id, zone_id, "inside") = 0

\* C5: an upsert whose polygon has fewer than 3 points is rejected and leaves
\* the registry, the containment index and the membership as they were.
C5_RejectedUpsertChangesNothing ==
    [][(zOp' = "add_zone" /\ Len(zArg'.polygon) < 3) =>
          /\ zRaised'
          /\ zones' = zones
          /\ prepared_polygons' = prepared_polygons
          /\ object_zones' = object_zones]_vars

(***************************************************************************)
(* Properties of the Alert Notifier                                        *)
(***************************************************************************)
\* time of the last process_zone_events call (its events carry it)
CallTime == nEvents[1].timestamp

\* timestamp of the newest alert recorded before the last call
LastAlertBefore == alert_history[Len(alert_history) - Len(nAlerts)].timestamp

\* C1: with min_frames_in_zone = 3 and an allow-listed class, one event per
\* call for the same (identity, zone), an enter followed by inside events,
\* gives no alert on the 1st and 2nd call and exactly one on the 3rd; a later
\* call less than cooldown_seconds after the last alert gives none, and a
\* later call once cooldown_seconds have elapsed gives exactly one more.
C1_DebounceSequence ==
    (nOp = "process_zone_events" /\ nCalls >= 1) =>
        /\ nCalls \in {1, 2} => nAlerts = <<>>
        /\ nCalls = 3 => Len(nAlerts) = 1
        /\ nCalls > 3 =>
              Len(nAlerts) = (IF CallTime - LastAlertBefore < cooldown_seconds
                              THEN 0 ELSE 1)

\* the 5th call of the sequence alerts again: the 3rd alerted, the 4th came
\* within the cooldown and the 5th after it
C1_Witness ==
    /\ nOp = "process_zone_events"
    /\ nCalls = 5
    /\ Len(nAlerts) = 1
    /\ Len(alert_history) = 2
    /\ alert_history[2].timestamp - alert_history[1].timestamp >= cooldown_seconds

\* the event is counted by process_zone_events
Qualifies(event) ==
    /\ event.event_type \in {"enter", "inside"}
    /\ Lower(event.class_name) \in {Lower(c) : c \in alert_classes}

\* the last call returned an alert for the (identity, zone) of the event
AlertedFor(event) ==
    \E j \in 1..Len(nAlerts) :
        nAlerts[j].id = <<event.tracker_id, event.zone_id, event.timestamp>>

\* the last call returned an alert for another identity of the event's class
\* and zone
OtherAlerted(event) ==
    \E j \in 1..Len(nAlerts) :
        /\ nAlerts[j].class_name = event.class_name
        /\ nAlerts[j].id[2] = event.zone_id
        /\ nAlerts[j].tracker_id # event.tracker_id

\* the cooldown of the event's (class, zone) had elapsed when the call began
CooldownElapsedBefore(event) ==
    ~IsInCooldown(nPrevLastAlerts, event.class_name, event.zone_id, event.timestamp)

\* C2: for every (identity, zone) of an allow-listed class the call in which
\* the pair's counter reaches min_frames_in_zone returns an alert for it, also
\* when another identity of the class alerted in the zone less than
\* cooldown_seconds earlier; and a later call (counter above the minimum)
\* returns an alert for it when the (class, zone) cooldown has elapsed.
C2_AlertWhenMinimumReached ==
    (nOp = "process_zone_events" /\ config_enabled) =>
        \A i \in 1..Len(nEvents) :
            Qualifies(nEvents[i]) =>
                LET event == nEvents[i]
                    frame_count == frame_counts[GetKey(event.tracker_id, event.zone_id)]
                IN  /\ frame_count = min_frames_in_zone => AlertedFor(event)
                    /\ (/\ frame_count > min_frames_in_zone
                        /\ CooldownElapsedBefore(event)
                        /\ ~OtherAlerted(event)) => AlertedFor(event)

(***************************************************************************)
(* Properties of the detection loop                                        *)
(***************************************************************************)
\* the last processed frame of the session reported the event
Reported(s, tracker_id, zone_id, event_type) ==
    \E j \in 1..Len(lEvents[s]) :
        /\ lEvents[s][j].tracker_id = tracker_id
        /\ lEvents[s][j].zone_id = zone_id
        /\ lEvents[s][j].event_type = event_type

\* the session is the only one that ever started
OnlySession(s) == \A other \in Sessions \ {s} : lOutcome[other] = "idle"

\* C3: with the enabled zone "full" covering the unit square and identity 7
\* whose reference point is (0.5, 0.5) when present inside, the frames of one
\* detection loop yield enter for the identity on the first frame it is
\* inside, inside on every later frame while it stays inside, and exit on the
\* first frame in which it is absent from the objects (also when the frame has
\* no tracked objects at all) or present outside the zone.
C3_EnterInsideExit ==
    \A s \in Sessions :
        (OnlySession(s) /\ "full" \in DOMAIN zones) =>
            /\ <<7, "full">> \in lInside[s] \ lPrevInside[s]
                  => Reported(s, 7, "full", "enter")
            /\ <<7, "full">> \in lInside[s] \cap lPrevInside[s]
                  => Reported(s, 7, "full", "inside")
            /\ <<7, "full">> \in lPrevInside[s] \ lInside[s]
                  => Reported(s, 7, "full", "exit")

\* C9: a component raising while one frame is processed does not terminate
\* the detection loop: the session is still running afterwards.
C9_LoopSurvivesFrameFailure ==
    \A s \in Sessions : lOutcome[s] = "raised" => running[s]

\* C10: an identity of an allow-listed class that is inside a zone in two
\* successive frames of its session gets inside (not enter again) on the
\* second one, and its debounce counter has counted both frames, whatever
\* frames the other session processed in between.
C10_SessionsDoNotInterfere ==
    \A s \in Sessions : \A pair \in lInside[s] \cap lPrevInside[s] :
        /\ Reported(s, pair[1], pair[2], "inside")
        /\ ~Reported(s, pair[1], pair[2], "enter")
        /\ (lSession = s /\ ClassOf(pair[1]) \in alert_classes) =>
              /\ GetKey(pair[1], pair[2]) \in DOMAIN frame_counts
              /\ frame_counts[GetKey(pair[1], pair[2])] >= 2

(***************************************************************************)
(* Properties of the Fusion Engine                                         *)
(***************************************************************************)
\* the backends of the last call whose detect call returned, in dict order
Succeeded ==
    LET Done(backend_id) == fTasks[backend_id].status = "done"
    IN  SelectSeq(fBackends, Done)

\* the per-backend results of the backends that succeeded
SucceededResults ==
    [i \in 1..Len(Succeeded) |->
        DetectionResult(Succeeded[i], BackendTypeOf(Succeeded[i]),
                        fTasks[Succeeded[i]].detections)]

\* C6: when the detect call of a backend raises during process_parallel the
\* call still returns: the fused detections are those of the strategy run on
\* the results of the backends that succeeded (every fused box comes from
\* one of them), backends_used and individual_results list exactly the
\* backends that succeeded; and every call dispatches every backend of its
\* mapping, also one that failed in the previous call.
C6_FailedBackendIsExcluded ==
    /\ fPhase = "awaiting" => DOMAIN fTasks = Range(fBackends)
    /\ (fPhase = "returned" /\ fBackends # <<>>) =>
          /\ fReturn.backends_used
                = [i \in 1..Len(Succeeded) |-> BackendTypeOf(Succeeded[i])]
          /\ fReturn.individual_results = Succeeded
          /\ fReturn.detections
                = Fuse(FusionConfig(fReturn.fusion_strategy), SucceededResults)
          /\ \A k \in 1..Len(fReturn.detections) :
                \E i \in 1..Len(Succeeded) :
                    \E j \in 1..Len(fTasks[Succeeded[i]].detections) :
                        fTasks[Succeeded[i]].detections[j].bbox
                            = fReturn.detections[k].bbox

\* a call returned in which one backend raised and the other, which had
\* raised in the call before, succeeded and supplied the fused detection
C6_Witness ==
    /\ fPhase = "returned"
    /\ fTasks = ("yolo_0" :> Task("done", <<PersonByYolo>>)
                 @@ "dlc_1" :> Task("raised", <<>>))
    /\ "yolo_0" \in fPrevFailed
    /\ fReturn.backends_used = <<"yolo">>
    /\ Len(fReturn.detections) = 1
    /\ fReturn.detections[1].bbox = PersonByYolo.bbox

\* C7: whenever zero adapters succeed (empty mapping, or every dispatched
\* backend failed) process_parallel returns an empty detection list, an empty
\* backends_used list and an inference latency of exactly zero.
C7_ZeroSucceedZeroLatency ==
    (fPhase = "returned" /\ Succeeded = <<>>) =>
        /\ fReturn.detections = <<>>
        /\ fReturn.backends_used = <<>>
        /\ fReturn.inference_time_ms = 0

\* C8: a process_parallel call is never left waiting on a detect call that
\* will not complete: a hung backend does not keep the call from returning.
C8_HungBackendDoesNotStall ==
    ~(/\ fPhase = "awaiting"
      /\ fTasks[fBackends[fNext]].status = "hung")

(***************************************************************************)
(* PipelineManager actions (pipeline_manager.py:214-347), as the routes of *)
(* pipeline_routes.py:68-202 call them. No operation awaits anything that  *)
(* suspends before it has finished with the manager, so each is one step.  *)
(***************************************************************************)
MaxBackendCounter == 3

\* the manager as it is now
ManagerNow == Manager(pm_backends, pm_fusion_config, active_preset, backend_counter)

\* ids of the instances registered in an operation's log
RECURSIVE Created(_)
Created(log) ==
    IF log = <<>> THEN <<>>
    ELSE IF Head(log)[1] = "create" THEN <<Head(log)[2]>> \o Created(Tail(log))
    ELSE Created(Tail(log))

\* the operation op(arg) ends and leaves the manager as r
PipelineStep(op, arg, r) ==
    /\ r.backend_counter <= MaxBackendCounter
    /\ pm_backends' = r.backends
    /\ pm_fusion_config' = r.fusion_config
    /\ active_preset' = r.active_preset
    /\ backend_counter' = r.backend_counter
    /\ pOp' = op
    /\ pArg' = arg
    /\ pRaised' = r.raised
    /\ pReturned' = IF r.raised # "none" THEN "None" ELSE r.returned
    /\ pLog' = r.log
    /\ pIssued' = pIssued \o Created(r.log)
    /\ UNCHANGED importable
    /\ UNCHANGED notPipeline

PresetIds == DOMAIN PRESETS \cup {"unknown"}

\* ids a request can name: those registered and one that never was
KnownIds == {pm_backends[i].backend_id : i \in 1..Len(pm_backends)} \cup {BackendId("yolo", 0)}

\* the installation is one in which importing deeplabcut_detector raises
\* ImportError (pipeline_manager.py:293-298); found out before the manager
\* is first used
BrokenInstallation ==
    /\ pOp = "init"
    /\ importable = {"deeplabcut"}
    /\ importable' = {}
    /\ UNCHANGED <<pm_backends, pm_fusion_config, active_preset, backend_counter, pOp,
                   pArg, pRaised, pReturned, pLog, pIssued>>
    /\ UNCHANGED notPipeline

ApplyPreset(preset_id) ==
    \E r \in {ApplyPresetResult(ManagerNow, importable, preset_id)} :
        PipelineStep("apply_preset", <<preset_id>>, r)

\* POST /backends with no model name and no config
AddBackend(backend_type) ==
    \E r \in {AddBackendResult(ManagerNow, importable, backend_type, "", EmptyMap)} :
        PipelineStep("add_backend", <<backend_type>>, r)

RemoveBackend(backend_id) ==
    \E r \in {RemoveBackendResult(ManagerNow, backend_id)} :
        PipelineStep("remove_backend", <<backend_id>>, r)

EnableBackend(backend_id, enabled) ==
    \E r \in {EnableBackendResult(ManagerNow, backend_id, enabled)} :
        PipelineStep("enable_backend", <<backend_id, enabled>>, r)

ClearAllBackends ==
    \E r \in {ClearAllBackendsResult(ManagerNow)} :
        PipelineStep("clear_all_backends", <<>>, r)

\* update_fusion_config(config)
UpdateFusionConfig(config) ==
    PipelineStep("update_fusion_config", <<config.strategy>>,
                 [ManagerNow EXCEPT !.fusion_config = config])

\* process_frame(frame)
ProcessFrame ==
    \E r \in {ProcessFrameResult(ManagerNow)} :
        PipelineStep("process_frame", <<>>, r)

NextPipeline ==
    \/ BrokenInstallation
    \/ \E preset_id \in PresetIds : ApplyPreset(preset_id)
    \/ \E backend_type \in BackendTypes : AddBackend(backend_type)
    \/ \E backend_id \in KnownIds : RemoveBackend(backend_id)
    \/ \E backend_id \in KnownIds, enabled \in BOOLEAN : EnableBackend(backend_id, enabled)
    \/ ClearAllBackends
    \/ UpdateFusionConfig(FusionConfig("weighted"))
    \/ ProcessFrame

SpecPipeline == Init /\ [][NextPipeline]_vars

(***************************************************************************)
(* process_frame suspended at an await of process_parallel while other     *)
(* coroutines use the manager (pipeline_manager.py:309-347;                *)
(* fusion_engine.py:98-110; base_detector.py:212-220). A task is "pending" *)
(* from its creation until the detect call handed to the executor has      *)
(* returned or raised.                                                     *)
(***************************************************************************)
\* the variables neither the manager nor the fusion engine holds
notFrame == <<zvars, nvars, lvars, dvars, svars, ivars>>

\* process_frame up to the first await of process_parallel: the mapping of the
\* enabled backends is taken and one detect task per backend is created (a
\* manager that holds a YOLODetector raises here instead)
DispatchFrame ==
    /\ fPhase # "awaiting"
    /\ \E r \in {ProcessFrameResult(ManagerNow)} :
          /\ r.raised = "none"
          /\ pOp' = "process_frame"
          /\ pArg' = <<>>
          /\ pRaised' = "none"
          /\ pReturned' = "None"
          /\ pLog' = r.log
    /\ \E active \in {GetActiveBackends(pm_backends)} :
          /\ fBackends' = active
          /\ IF active = <<>>
             THEN /\ fPhase' = "returned"
                  /\ fTasks' = EmptyMap
                  /\ fNext' = 0
                  /\ fReturn' = EmptyFusedResult(pm_fusion_config)
             ELSE /\ fPhase' = "awaiting"
                  /\ fTasks' = [b \in Range(active) |-> Task("pending", <<>>)]
                  /\ fNext' = 1
                  /\ fReturn' = NoReturn
    /\ fResults' = <<>>
    /\ fPrevFailed' = FailedBackends
    /\ UNCHANGED <<fConfig, importable, pm_backends, pm_fusion_config, active_preset,
                   backend_counter, pIssued>>
    /\ UNCHANGED notFrame

\* "await task" of the suspended process_frame resumes for the task awaited;
\* after the last one the results are fused and process_frame returns
AwaitDetect(total_time) ==
    /\ fPhase = "awaiting"
    /\ fTasks[fBackends[fNext]].status \in {"done", "raised"}
    /\ \E results \in {CollectResult(fResults, fBackends[fNext], fBackends[fNext][1],
                                     fTasks[fBackends[fNext]])} :
          /\ fResults' = results
          /\ IF fNext = Len(fBackends)
             THEN /\ fPhase' = "returned"
                  /\ fReturn' = FusedResult(pm_fusion_config, results, total_time)
                  /\ fNext' = 0
             ELSE /\ fNext' = fNext + 1
                  /\ UNCHANGED <<fPhase, fReturn>>
    /\ UNCHANGED <<fConfig, fBackends, fTasks, fPrevFailed>>
    /\ UNCHANGED notFusion

\* a manager of DeepLabCut backends: requests add and remove backends, clear
\* them and apply the preset without backends while frames are processed
NextTeardown ==
    \/ AddBackend("deeplabcut")
    \/ \E backend_id \in KnownIds : RemoveBackend(backend_id)
    \/ ClearAllBackends
    \/ ApplyPreset("custom")
    \/ DispatchFrame
    \/ \E backend_id \in DOMAIN fTasks : DetectFinishes(backend_id, "done", <<PersonByDlc>>)
    \/ \E backend_id \in DOMAIN fTasks : DetectFinishes(backend_id, "raised", <<>>)
    \/ AwaitDetect(1)

SpecTeardown == Init /\ [][NextTeardown]_vars

(***************************************************************************)
(* Properties of alert delivery                                            *)
(***************************************************************************)
\* the step is one send_alert call of a pending task
IsSendStep == nOp' = "send_alert" /\ deliveries' # deliveries

\* positions still waiting in some send_alerts task
Pending(tasks) == UNION {Range(tasks[d]) : d \in 1..Len(tasks)}

Returned == (Len(alert_history) - Len(nAlerts) + 1)..Len(alert_history)

\* C12: the detection loop does not wait for the delivery of alerts. When
\* an iteration has finished, the alerts it got from process_zone_events
\* are all still waiting in the send_alerts task created for them, no
\* send_alert call was made on any of them, the session is still running
\* and its next iteration can be taken whatever deliveries are pending.
C12_LoopDoesNotWaitForDelivery ==
    \A s \in Sessions :
        (lSession = s /\ lOutcome[s] = "ok" /\ nOp = "process_zone_events") =>
            /\ running[s]
            /\ ENABLED LoopFrame(s, <<>>, "none")
            /\ Returned \cap dAttempted = {}
            /\ nAlerts # <<>> =>
                 /\ deliveries # <<>>
                 /\ Range(deliveries[Len(deliveries)]) = Returned

\* an iteration finished while the alerts of an earlier iteration are still
\* waiting for delivery
C12_Witness ==
    /\ lSession = DeliverySession
    /\ lOutcome[DeliverySession] = "ok"
    /\ nOp = "process_zone_events"
    /\ \E position \in Pending(deliveries) :
          /\ position \notin Returned
          /\ alert_history[position].timestamp < now

\* a candidate for the fixed maximum of the history: one less than the
\* number of alerts the notifier is followed for
HistoryLimit == MaxHistory - 1

\* limits given to get_recent_alerts
RecentLimits == 1..(MaxHistory + 1)

\* C13: the alert history never holds more than a fixed number of alerts,
\* and get_recent_alerts(n) returns at most n alerts, the n most recently
\* emitted ones in emission order.
C13_HistoryIsBounded ==
    /\ Len(alert_history) <= HistoryLimit
    /\ \A n \in RecentLimits :
         LET recent == GetRecentAlerts(alert_history, n)
             skipped == Len(alert_history) - Len(recent)
         IN  /\ Len(recent) = Min(n, Len(alert_history))
             /\ \A i \in 1..Len(recent) : recent[i] = alert_history[skipped + i]

\* the step is a process_zone_events call with alerts enabled
IsProcessStep == nOp' = "process_zone_events" /\ now' = now /\ config_enabled

\* spellings of one label
SameLabel(a, b) ==
    \/ a = b
    \/ {a, b} = {"persona", "Persona"}

\* an enter or inside event whose class is in the allow-list, case apart
Considered(event) ==
    /\ event.event_type \in {"enter", "inside"}
    /\ \E c \in alert_classes : SameLabel(event.class_name, c)

\* the batch holds a considered event of the class and zone of the event
ConsideredForClass(events, event) ==
    \E j \in 1..Len(events) :
        /\ Considered(events[j])
        /\ events[j].class_name = event.class_name
        /\ events[j].zone_id = event.zone_id

\* C14: process_zone_events considers only enter and inside events whose
\* class is in the allow-list, compared without regard to case. Such an
\* event gets its counter written (1 on enter, one more on inside); an exit
\* event or an event of another class produces no alert, leaves the counter
\* of its (identity, zone) absent or as it was, and the cooldown time of
\* its (class, zone) is as it was unless a considered event of the batch
\* has that class and zone.
C14_OnlyAllowListedEnterInside ==
    [][IsProcessStep =>
         \A i \in 1..Len(nEvents') :
             LET event == nEvents'[i]
                 key == GetKey(event.tracker_id, event.zone_id)
                 cooldown_key == GetCooldownKey(event.class_name, event.zone_id)
             IN  IF Considered(event)
                 THEN /\ key \in DOMAIN frame_counts'
                      /\ frame_counts'[key] =
                           NextFrameCount(frame_counts, key, event.event_type)
                 ELSE /\ \A j \in 1..Len(nAlerts') :
                            nAlerts'[j].id # <<event.tracker_id, event.zone_id,
                                               event.timestamp>>
                      /\ key \in DOMAIN frame_counts' =>
                            /\ key \in DOMAIN frame_counts
                            /\ frame_counts'[key] = frame_counts[key]
                      /\ ~ConsideredForClass(nEvents', event) =>
                            Get(last_alerts', cooldown_key, -1)
                                = Get(last_alerts, cooldown_key, -1)]_vars

\* identity 8 was counted twice as a "Persona"; the last call then got its
\* exit event and returned nothing, and the counter is as it was
C14_Witness ==
    /\ nOp = "process_zone_events"
    /\ config_enabled
    /\ Len(nEvents) = 1
    /\ nEvents[1].event_type = "exit"
    /\ nEvents[1].class_name = "Persona"
    /\ nAlerts = <<>>
    /\ Get(frame_counts, GetKey(8, "pool-water"), 0) = 2
    /\ last_alerts = EmptyMap

(***************************************************************************)
(* Properties of the PipelineManager                                       *)
(***************************************************************************)
\* the step is an apply_preset call that reported failure or an add_backend
\* call that raised for want of a detector
IsRejectedStep ==
    \/ pOp' = "apply_preset" /\ pRaised' = "none" /\ pReturned' = "False"
    \/ pOp' = "add_backend" /\ pRaised' = "ValueError"

\* C15: a rejected configuration operation leaves the manager as it was.
\* apply_preset with an unknown preset id reports failure and add_backend
\* with a backend type that has no detector raises; after either, the
\* registered backends, their enabled flags, the fusion configuration, the
\* active preset id and the id counter are what they were before.
C15_RejectedOperationChangesNothing ==
    [][IsRejectedStep =>
         /\ pm_backends' = pm_backends
         /\ pm_fusion_config' = pm_fusion_config
         /\ active_preset' = active_preset
         /\ backend_counter' = backend_counter]_vars

\* the backend specs of a preset for which a detector can be made
RECURSIVE Creatable(_)
Creatable(specs) ==
    IF specs = <<>> THEN <<>>
    ELSE IF CreateDetector(importable, Head(specs).type) # "None"
    THEN <<Head(specs)>> \o Creatable(Tail(specs))
    ELSE Creatable(Tail(specs))

\* the registry holds one enabled instance for each of the specs, in order
HoldsOnePerSpec(specs) ==
    /\ Len(pm_backends) = Len(specs)
    /\ \A i \in 1..Len(specs) :
          /\ pm_backends[i].backend_type = specs[i].type
          /\ pm_backends[i].model_name = specs[i].model
          /\ pm_backends[i].config = specs[i]
          /\ pm_backends[i].enabled

\* C16: when one of the backends of a known preset cannot be created or its
\* model cannot be loaded, apply_preset goes on with the other specs: after
\* an apply_preset call whose tear-down of the old backends went through,
\* every backend of the preset that can be created is registered, the
\* fusion configuration and the active preset id are the preset's and the
\* call reported success.
C16_PresetSurvivesBackendFailure ==
    (pOp = "apply_preset" /\ pArg[1] \in DOMAIN PRESETS /\ pRaised # "AttributeError") =>
        /\ pRaised = "none"
        /\ pReturned = "True"
        /\ active_preset = pArg[1]
        /\ pm_fusion_config = PRESETS[pArg[1]].fusion
        /\ HoldsOnePerSpec(Creatable(PRESETS[pArg[1]].backends))

\* the step is an apply_preset call that reported success
IsAppliedStep == pOp' = "apply_preset" /\ pRaised' = "none" /\ pReturned' = "True"

\* positions of an entry in an operation's log
Positions(log, entry) == {i \in 1..Len(log) : log[i] = entry}

\* ids of the registered instances
RegisteredIds(instances) == {instances[i].backend_id : i \in 1..Len(instances)}

\* C17: an apply_preset call that reports success has removed every backend
\* registered before it and called cleanup on each exactly once, all of
\* that before it made the first new detector; afterwards the registry holds
\* exactly one new, enabled instance for each backend spec of the preset and
\* the fusion configuration is the preset's.
C17_AppliedPresetReplacesBackends ==
    [][IsAppliedStep =>
         /\ \A id \in RegisteredIds(pm_backends) :
               /\ Cardinality(Positions(pLog', <<"cleanup", id>>)) = 1
               /\ id \notin RegisteredIds(pm_backends')
         /\ \A i, j \in 1..Len(pLog') :
               (pLog'[i][1] = "cleanup" /\ pLog'[j][1] = "create") => i < j
         /\ Len(pm_backends') = Len(PRESETS[pArg'[1]].backends)
         /\ \A i \in 1..Len(pm_backends') :
               LET instance == pm_backends'[i]
                   spec == PRESETS[pArg'[1]].backends[i]
               IN  /\ instance.backend_type = spec.type
                   /\ instance.model_name = spec.model
                   /\ instance.config = spec
                   /\ instance.enabled
                   /\ instance.backend_id \notin Range(pIssued)
                   /\ Cardinality(Positions(pLog', <<"create", instance.backend_id>>)) = 1
         /\ pm_fusion_config' = PRESETS[pArg'[1]].fusion]_vars

\* a preset with two backends was applied while a DeepLabCut backend was
\* registered: the old backend was cleaned up and is gone
C17_Witness ==
    /\ pOp = "apply_preset"
    /\ pReturned = "True"
    /\ Len(pm_backends) = 2
    /\ \E id \in Range(pIssued) :
          /\ Positions(pLog, <<"cleanup", id>>) # {}
          /\ id \notin RegisteredIds(pm_backends)

\* what the instances are apart from their ids
Shape(instances) ==
    [i \in 1..Len(instances) |->
        [backend_type |-> instances[i].backend_type,
         model_name |-> instances[i].model_name,
         config |-> instances[i].config,
         enabled |-> instances[i].enabled]]

\* the step is an apply_preset call for the preset that the call before it,
\* an apply_preset call too, has applied
IsReappliedStep ==
    /\ pOp = "apply_preset"
    /\ pReturned = "True"
    /\ pOp' = "apply_preset"
    /\ pArg' = pArg

\* C18: applying a preset a second time, right after it was applied, leaves
\* the manager as the first application left it: as many backends, of the
\* same types, model names, configs and enabled flags, the same fusion
\* configuration and the same active preset id; only the ids are new.
C18_ApplyPresetIsIdempotent ==
    [][IsReappliedStep =>
         /\ Shape(pm_backends') = Shape(pm_backends)
         /\ pm_fusion_config' = pm_fusion_config
         /\ active_preset' = active_preset]_vars

\* ids of the backends the last operation dispatched detect to
Dispatched(log) == {log[i][2] : i \in {j \in 1..Len(log) : log[j][1] = "detect"}}

\* ids of the registered backends whose enabled flag is set
EnabledIds ==
    {pm_backends[i].backend_id : i \in {j \in 1..Len(pm_backends) : pm_backends[j].enabled}}

\* C19: get_active_backends returns exactly the registered backends whose
\* enabled flag is set; a backend that was disabled stays registered; and
\* process_frame dispatches detect to exactly the backends active when it
\* is called, to each of them once.
C19_DetectGoesToActiveBackends ==
    /\ Range(GetActiveBackends(pm_backends)) = EnabledIds
    /\ (pOp = "enable_backend" /\ pReturned = "True") =>
          /\ pArg[1] \in RegisteredIds(pm_backends)
          /\ (pArg[1] \in EnabledIds) = pArg[2]
    /\ pOp = "process_frame" =>
          /\ Dispatched(pLog) = EnabledIds
          /\ Len(pLog) = Cardinality(EnabledIds)

\* no backend id is written twice in a sequence of ids
AllDistinct(ids) == \A i, j \in 1..Len(ids) : i # j => ids[i] # ids[j]

\* C20: backend ids are never reused: every id given to a registered
\* instance differs from all ids given before it, also after backends were
\* removed, all backends were cleared or a preset was applied, and the
\* counter the ids are made from never goes down to a number already used.
C20_BackendIdsAreNeverReused ==
    /\ AllDistinct(pIssued)
    /\ RegisteredIds(pm_backends) \subseteq Range(pIssued)
    /\ \A i \in 1..Len(pIssued) : pIssued[i][2] \in 1..backend_counter

\* a backend was registered after an earlier backend of its type had been
\* removed, and their ids differ
C20_Witness ==
    \E i, j \in 1..Len(pIssued) :
        /\ i < j
        /\ pIssued[i][1] = pIssued[j][1]
        /\ pIssued[i] \notin RegisteredIds(pm_backends)
        /\ pIssued[j] \in RegisteredIds(pm_backends)
        /\ pOp \in {"add_backend", "apply_preset"}


(***************************************************************************)
(* A run of the configured strategy on the results of a call               *)
(* (fusion_engine.py:112-140) and a comparison of two boxes.               *)
(***************************************************************************)
\* the strategy dispatch of process_parallel on results; a behaviour follows
\* the first call that has results to fuse
FuseResults(cfg, results) ==
    /\ sConfig = FusionConfig("parallel")
    /\ sResults = <<>>
    /\ sConfig' = cfg
    /\ sResults' = results
    /\ sFused' = Fuse(cfg, results)
    /\ sAfter' = IndividualResults(cfg, results)
    /\ UNCHANGED ivars
    /\ UNCHANGED notStrategy

NextStrategies == \E cfg \in StrategyConfigs, results \in ResultLists : FuseResults(cfg, results)

SpecStrategies == Init /\ [][NextStrategies]_vars

\* _calculate_iou on two boxes, in both orders; a behaviour follows the
\* first comparison of boxes other than the unit box
CompareBoxes(box1, box2) ==
    /\ iBox1 = UnitBox
    /\ iBox2 = UnitBox
    /\ iBox1' = box1
    /\ iBox2' = box2
    /\ iForward' = CalculateIoU(box1, box2)
    /\ iBackward' = CalculateIoU(box2, box1)
    /\ UNCHANGED svars
    /\ UNCHANGED notStrategy

NextIoU == \E box1 \in Boxes, box2 \in Boxes : CompareBoxes(box1, box2)

SpecIoU == Init /\ [][NextIoU]_vars

(***************************************************************************)
(* Properties of the session handler (websocket.py:434-438, 441-517)       *)
(***************************************************************************)
\* the resources a session still holds: a loaded detector model, a started
\* video source
Held(s) ==
    (IF detector[s] = "loaded" THEN {"detector"} ELSE {}) \cup
    (IF video_source[s] = "started" THEN {"video_source"} ELSE {})

\* C21: when the session handler has returned (after a stop command, a
\* disconnect or an error of the loop) the session holds no resource any
\* more: the detector's model has been released and the video source stopped.
C21_HandlerReleasesResources ==
    \A s \in Sessions : lHandler[s] = "returned" => Held(s) = {}


(***************************************************************************)
(* Properties of the fusion strategies (fusion_engine.py:142-448)          *)
(***************************************************************************)
\* the detections handed to the strategy, in the order of the results
Handed(results) == Concat([r \in 1..Len(results) |-> results[r].detections])

\* two detections of the same class whose boxes overlap by the threshold
Clustered(cfg, d, e) ==
    /\ d.class_id = e.class_id
    /\ FracAtLeast(CalculateIoU(d.bbox, e.bbox), cfg.iou_threshold)

\* the same detection but for the backend tag
SameButTag(d, e) ==
    /\ d.class_id = e.class_id
    /\ d.confidence = e.confidence
    /\ d.bbox = e.bbox
    /\ d.keypoints = e.keypoints
    /\ d.tracker_id = e.tracker_id

\* the ways of clustering the detections: every detection is assigned the
\* first detection of its cluster, with which it clusters, and the first
\* detections of two clusters do not cluster
Clusterings(cfg, all) ==
    {seed \in [1..Len(all) -> 1..Len(all)] :
        /\ \A i \in 1..Len(all) : seed[i] <= i /\ seed[seed[i]] = seed[i]
        /\ \A i \in 1..Len(all) : seed[i] # i => Clustered(cfg, all[seed[i]], all[i])
        /\ \A i, j \in 1..Len(all) :
              (seed[i] = i /\ seed[j] = j /\ i # j) => ~Clustered(cfg, all[i], all[j])}

\* the output has one detection per cluster, in the order of the clusters'
\* first detections: box and class of a member of highest confidence, that
\* confidence, and the very detection for a cluster of one
CollapsesClusters(all, seed, fused) ==
    LET firsts == Ascending({i \in 1..Len(all) : seed[i] = i})
    IN  /\ Len(fused) = Len(firsts)
        /\ \A k \in 1..Len(firsts) :
              LET members == {i \in 1..Len(all) : seed[i] = firsts[k]}
              IN  /\ \A i \in members : all[i].confidence <= fused[k].confidence
                  /\ \E b \in members :
                        /\ all[b].confidence = fused[k].confidence
                        /\ all[b].bbox = fused[k].bbox
                        /\ all[b].class_id = fused[k].class_id
                  /\ members = {firsts[k]} => SameButTag(fused[k], all[firsts[k]])

\* C22: under parallel_merge every cluster of same-class detections with IoU
\* at or above the threshold becomes one output detection with the box and
\* class of its member of highest confidence and the maximum confidence of
\* the cluster; a detection that clusters with no other is output unchanged,
\* so backends whose detections do not overlap yield the union of them.
C22_ParallelMergeCollapsesClusters ==
    sConfig.strategy = "parallel" =>
        \E seed \in Clusterings(sConfig, Handed(sResults)) :
            CollapsesClusters(Handed(sResults), seed, sFused)

\* YOLO and DeepLabCut both saw the person, DeepLabCut with the higher
\* confidence, and each saw a dog elsewhere: three detections come out, the
\* first with the DeepLabCut box
C22_Witness ==
    /\ sConfig.strategy = "parallel"
    /\ Len(Handed(sResults)) = 4
    /\ Len(sFused) = 3
    /\ Handed(sResults)[1] = PersonByYolo
    /\ sFused[1].bbox = PersonByDlc.bbox
    /\ sFused[1].confidence = PersonByDlc.confidence


\* a detection of one result clusters with a detection of the other
SomeAgree(cfg, results) ==
    \E d \in Range(results[1].detections), e \in Range(results[2].detections) :
        Clustered(cfg, d, e)

\* two backends report one detection each, of the same class and with IoU at
\* or above the threshold
BothReportOne(cfg, results) ==
    /\ Len(results) = 2
    /\ Len(results[1].detections) = 1
    /\ Len(results[2].detections) = 1
    /\ SomeAgree(cfg, results)

\* one backend reports alone: it is the only one with a result, or nothing
\* the other reported matches
OneReportsAlone(cfg, results) ==
    \/ Len(results) = 1
    \/ Len(results) = 2 /\ ~SomeAgree(cfg, results)

\* C23: under consensus with min_backends_agree = 2, two backends reporting
\* one detection each of the same class with IoU at or above the threshold
\* yield exactly one detection whose confidence is the mean of the two; when
\* one backend reports alone the output has no detection.
C23_ConsensusNeedsTwoBackends ==
    (sConfig.strategy = "consensus" /\ sConfig.min_backends_agree = 2) =>
        /\ BothReportOne(sConfig, sResults) =>
              /\ Len(sFused) = 1
              /\ 2 * sFused[1].confidence =
                    sResults[1].detections[1].confidence
                    + sResults[2].detections[1].confidence
        /\ OneReportsAlone(sConfig, sResults) => sFused = <<>>


\* the detections of the only result of one of the backend types
DetectionsOfType(results, backend_types) ==
    results[CHOOSE r \in 1..Len(results) : results[r].backend_type \in backend_types].detections

\* one YOLO result and one pose result
OneOfEach(results) ==
    /\ Len(results) = 2
    /\ {results[1].backend_type, results[2].backend_type} = {"yolo", "deeplabcut"}

\* IoU of a box-source and a pose detection of the same class is high enough
\* for pairing: at or above the threshold, or strictly above it
Pairable(cfg, orEqual, d, e) ==
    /\ d.class_id = e.class_id
    /\ IF orEqual THEN FracAtLeast(CalculateIoU(d.bbox, e.bbox), cfg.iou_threshold)
       ELSE FracGreater(CalculateIoU(d.bbox, e.bbox), cfg.iou_threshold)

\* the pairings of the claim: pose[pair[i]] is, among the pose detections not
\* paired with an earlier box detection and pairable with boxes[i], one of
\* highest IoU; pair[i] = 0 when there is none
Pairings(cfg, orEqual, boxes, pose) ==
    {pair \in [1..Len(boxes) -> 0..Len(pose)] :
        \A i \in 1..Len(boxes) :
            LET free == {p \in 1..Len(pose) :
                            /\ \A h \in 1..(i - 1) : pair[h] # p
                            /\ Pairable(cfg, orEqual, boxes[i], pose[p])}
            IN  IF free = {} THEN pair[i] = 0
                ELSE /\ pair[i] \in free
                     /\ \A p \in free :
                           FracAtLeast(CalculateIoU(boxes[i].bbox, pose[pair[i]].bbox),
                                       CalculateIoU(boxes[i].bbox, pose[p].bbox))}

\* the output for a pairing: one detection per box detection, with the box
\* detection's box and the pose detection's keypoints (its own when the pose
\* detection has none) when paired and unchanged otherwise, then the unpaired
\* pose detections unchanged
FollowsPairing(boxes, pose, pair, fused) ==
    LET unpaired == Ascending({p \in 1..Len(pose) : \A i \in 1..Len(boxes) : pair[i] # p})
    IN  /\ Len(fused) = Len(boxes) + Len(unpaired)
        /\ \A i \in 1..Len(boxes) :
              IF pair[i] = 0 THEN fused[i] = boxes[i]
              ELSE /\ fused[i].bbox = boxes[i].bbox
                   /\ fused[i].class_id = boxes[i].class_id
                   /\ fused[i].keypoints =
                         IF pose[pair[i]].keypoints # <<>> THEN pose[pair[i]].keypoints
                         ELSE boxes[i].keypoints
        /\ \A k \in 1..Len(unpaired) : fused[Len(boxes) + k] = pose[unpaired[k]]

\* the cascade output follows one of the pairings
CascadeFollowsPairing(orEqual) ==
    (sConfig.strategy = "cascade" /\ OneOfEach(sResults)) =>
        \E pair \in Pairings(sConfig, orEqual, DetectionsOfType(sResults, {"yolo"}),
                             DetectionsOfType(sResults, {"deeplabcut", "sleap"})) :
            FollowsPairing(DetectionsOfType(sResults, {"yolo"}),
                           DetectionsOfType(sResults, {"deeplabcut", "sleap"}),
                           pair, sFused)

\* C24 as stated: under cascade with one YOLO and one pose result every
\* box-source detection is paired with the not yet paired pose detection of
\* its class of highest IoU among those at or above the threshold; a paired
\* output keeps the box-source box and takes the pose keypoints when there
\* are any; every unpaired detection of either side is output once,
\* unchanged, and no detection is in two outputs.
C24_CascadePairsAtOrAboveThreshold == CascadeFollowsPairing(TRUE)

\* C24 amended: the same with pairing only for an IoU strictly above the
\* threshold; at an IoU equal to the threshold both detections are output
\* unpaired.
C24_CascadePairsAboveThreshold == CascadeFollowsPairing(FALSE)

\* the YOLO person has two pose candidates above the threshold and is paired
\* with the closer one, the second in the list; the YOLO dog and the other
\* pose detection are output unpaired
C24_Witness ==
    /\ sConfig.strategy = "cascade"
    /\ OneOfEach(sResults)
    /\ DetectionsOfType(sResults, {"deeplabcut"}) = <<PersonByDlc, PersonClose>>
    /\ Len(sFused) = 3
    /\ sFused[1].bbox = PersonByYolo.bbox
    /\ sFused[1].keypoints = PersonClose.keypoints
    /\ sFused[2] = DogByYolo
    /\ sFused[3] = PersonByDlc


\* the results with every confidence multiplied by the weight configured for
\* the backend type of its result, by 1.0 (WeightUnits) where none is
ConfiguredWeighting(cfg, results) ==
    [r \in 1..Len(results) |->
        [results[r] EXCEPT !.detections =
            [i \in 1..Len(results[r].detections) |->
                [results[r].detections[i] EXCEPT !.confidence =
                    (@ * Get(cfg.backend_weights, results[r].backend_type, WeightUnits))
                    \div WeightUnits]]]]

\* two lists of detections equal but for the backend tags
SameListButTags(list1, list2) ==
    /\ Len(list1) = Len(list2)
    /\ \A k \in 1..Len(list1) : SameButTag(list1[k], list2[k])

\* C25: under the weighted strategy the output is that of parallel_merge on
\* the detections with every confidence multiplied by the weight configured
\* for the backend type of its backend, by 1.0 for a type without configured
\* weight, also when no weight is configured at all.
C25_WeightedUsesConfiguredWeights ==
    sConfig.strategy = "weighted" =>
        SameListButTags(sFused, ParallelMerge(sConfig, ConfiguredWeighting(sConfig, sResults)))


\* C26: fusion does not change the detections of the backends: after a run of
\* any strategy every detection of individual_results has the confidence,
\* keypoints and box it had when its backend returned it.
C26_FusionLeavesBackendDetectionsAlone ==
    /\ Len(sAfter) = Len(sResults)
    /\ \A r \in 1..Len(sResults) :
          /\ Len(sAfter[r].detections) = Len(sResults[r].detections)
          /\ \A i \in 1..Len(sResults[r].detections) :
                /\ sAfter[r].detections[i].confidence = sResults[r].detections[i].confidence
                /\ sAfter[r].detections[i].keypoints = sResults[r].detections[i].keypoints
                /\ sAfter[r].detections[i].bbox = sResults[r].detections[i].bbox


(***************************************************************************)
(* Properties of _calculate_iou (fusion_engine.py:142-163)                 *)
(***************************************************************************)
\* two boxes share no area: one ends where or before the other starts
Apart(box1, box2) ==
    \/ box1[3] <= box2[1]
    \/ box2[3] <= box1[1]
    \/ box1[4] <= box2[2]
    \/ box2[4] <= box1[2]

\* C27: for boxes with integer corners, x1 < x2 and y1 < y2: the IoU of a box
\* with itself is 1.0, the IoU of two boxes that do not overlap (touching
\* edges included) is 0.0, and the IoU of two boxes is the same in both
\* orders.
C27_IoUIsReflexiveZeroApartSymmetric ==
    /\ iBox1 = iBox2 => iForward[1] = iForward[2]
    /\ Apart(iBox1, iBox2) => iForward[1] = 0
    /\ iForward[1] * iBackward[2] = iBackward[1] * iForward[2]
    /\ iForward[2] > 0 /\ iBackward[2] > 0

\* two different boxes that overlap in part were compared: the IoU is
\* neither 0 nor 1
C27_Witness ==
    /\ iBox1 # iBox2
    /\ ~Apart(iBox1, iBox2)
    /\ iForward[1] > 0
    /\ iForward[1] < iForward[2]
    /\ iBox1[3] - iBox1[1] # iBox2[3] - iBox2[1]


(***************************************************************************)
(* Properties of the debounce state (notifier.py:99-165)                   *)
(***************************************************************************)
\* the call of the step counts an event for the key: an enter or inside of
\* an allow-listed class
CountedEvents(key) ==
    {i \in 1..Len(nEvents') :
        /\ Considered(nEvents'[i])
        /\ GetKey(nEvents'[i].tracker_id, nEvents'[i].zone_id) = key}

\* C28: the counter of an (identity, zone) pair is 1 after a qualifying
\* enter event and one more than before (one more than 0 without counter)
\* after a qualifying inside event; apart from the removal of counters by
\* the clean-up nothing else changes a counter, and a counter whose event
\* emitted an alert stays at the count it reached.
C28_CounterFollowsQualifyingEvents ==
    [][/\ IsProcessStep =>
            /\ \A i \in 1..Len(nEvents') :
                  LET event == nEvents'[i]
                      key == GetKey(event.tracker_id, event.zone_id)
                      before == IF key \in DOMAIN frame_counts THEN frame_counts[key] ELSE 0
                  IN  Considered(event) =>
                         /\ key \in DOMAIN frame_counts'
                         /\ frame_counts'[key] =
                               (IF event.event_type = "enter" THEN 1 ELSE before + 1)
            /\ \A j \in 1..Len(nAlerts') :
                  /\ GetKey(nAlerts'[j].tracker_id, nAlerts'[j].id[2]) \in DOMAIN frame_counts'
                  /\ frame_counts'[GetKey(nAlerts'[j].tracker_id, nAlerts'[j].id[2])]
                        >= min_frames_in_zone
       /\ \A key \in DOMAIN frame_counts' :
             (~IsProcessStep \/ CountedEvents(key) = {}) =>
                 /\ key \in DOMAIN frame_counts
                 /\ frame_counts'[key] = frame_counts[key]
       /\ ~IsProcessStep => frame_counts' = frame_counts]_vars

\* identity 7 reached the frame minimum while its class was in cooldown and
\* was counted a fourth time once the cooldown was over: the call emitted
\* its alert and the counter stands at four
C28_Witness ==
    /\ nOp = "process_zone_events"
    /\ Len(nAlerts) = 1
    /\ nAlerts[1].tracker_id = 7
    /\ GetKey(7, PoolWater.id) \in DOMAIN frame_counts
    /\ frame_counts[GetKey(7, PoolWater.id)] = min_frames_in_zone + 1


\* the (identity, zone) pairs of the events of a batch
BatchPairs(events) == {<<events[i].tracker_id, events[i].zone_id>> : i \in 1..Len(events)}

Present(events) == {events[i].tracker_id : i \in 1..Len(events)}

\* C30: after a process_zone_events call whose batch has no event for an
\* identity the notifier holds no frame counter of that identity and no
\* last-alert time of a (class, zone) written by an alert of that identity.
C30_DebounceStatePrunedWithIdentity ==
    (nOp = "process_zone_events" /\ config_enabled) =>
        \A tracker_id \in TrackerIds \ Present(nEvents) :
            /\ \A key \in DOMAIN frame_counts : key[1] # tracker_id
            /\ \A j \in 1..Len(alert_history) :
                  alert_history[j].tracker_id = tracker_id =>
                      Get(last_alerts,
                          GetCooldownKey(alert_history[j].class_name, alert_history[j].id[2]),
                          -1) # alert_history[j].timestamp


(***************************************************************************)
(* Properties of the membership snapshot and the registry                  *)
(* (geometry.py:82-101, 129-135, 156-218)                                  *)
(***************************************************************************)
\* identities of the objects list of the last call
Listed == {zArg[i].tracker_id : i \in 1..Len(zArg)}

\* C31: after a check_objects call the membership snapshot has an entry for
\* exactly the identities of the objects list of the call, each with the
\* enabled zones that contain its reference point; an identity that had no
\* entry because the call before did not list it gets only enter events,
\* and no event, so no exit, is emitted for an identity the call does not
\* list.
C31_SnapshotHoldsTheListedIdentities ==
    (zOp = "check_objects" /\ ~zRaised) =>
        /\ DOMAIN object_zones = Listed
        /\ \A i \in 1..Len(zArg) : object_zones[zArg[i].tracker_id] = ContainingNow(zArg[i])
        /\ \A j \in 1..Len(zEvents) :
              /\ zEvents[j].tracker_id \in Listed
              /\ zEvents[j].tracker_id \notin DOMAIN zPrevObjectZones =>
                    zEvents[j].event_type = "enter"

\* the call before listed only identity 8; this call lists identity 7 in
\* the water and not identity 8, which was in the water: one enter event
\* for 7, nothing for 8
C31_Witness ==
    /\ zOp = "check_objects"
    /\ ~zRaised
    /\ DOMAIN zPrevObjectZones = {8}
    /\ zPrevObjectZones[8] = {"pool-water"}
    /\ Listed = {7}
    /\ object_zones = Put(EmptyMap, 7, {"pool-water"})
    /\ Len(zEvents) = 1
    /\ zEvents[1].event_type = "enter"


\* C32: remove_zone leaves the membership snapshot as it was; a check_objects
\* call does not fail on a snapshot that names a removed zone and emits no
\* event whose zone id is not in the registry at the time of the call, so a
\* zone removed while an identity is inside it yields no exit event.
C32_RemovedZoneYieldsNoEvent ==
    [][/\ zOp' = "remove_zone" => object_zones' = object_zones
       /\ zOp' = "check_objects" =>
             /\ ~zRaised'
             /\ \A j \in 1..Len(zEvents') : zEvents'[j].zone_id \in DOMAIN zones']_vars

\* identity 7 was in the water when the zone pool-water was removed; the
\* call lists it at a point outside every zone and emits nothing
C32_Witness ==
    /\ zOp = "check_objects"
    /\ ~zRaised
    /\ 7 \in DOMAIN zPrevObjectZones
    /\ zPrevObjectZones[7] = {"pool-water"}
    /\ "pool-water" \notin DOMAIN zones
    /\ 7 \in Listed
    /\ object_zones[7] = {}
    /\ zEvents = <<>>


\* C36: after any sequence of add_zone (also calls rejected for an invalid
\* polygon), remove_zone and clear_zones the registry and the containment
\* index have the same zone ids, every index was built from the polygon
\* stored for its id, and remove_zone and check_objects do not fail with a
\* missing key.
C36_RegistryAndIndexAgree ==
    /\ DOMAIN zones = DOMAIN prepared_polygons
    /\ \A id \in DOMAIN zones : prepared_polygons[id] = zones[id].polygon
    /\ zOp \in {"remove_zone", "check_objects"} => ~zRaised


\* sum of the confidences of the detections at the indexes
RECURSIVE SumOver(_, _)
SumOver(all, members) ==
    IF members = {} THEN 0
    ELSE LET i == CHOOSE x \in members : TRUE
         IN  all[i].confidence + SumOver(all, members \ {i})

\* the clusters an output detection can stand for: detections of its class,
\* each clustered with the first of them, whose box the output carries
ClustersOf(cfg, all, output) ==
    {members \in SUBSET (1..Len(all)) \ {{}} :
        LET first == CHOOSE i \in members : \A k \in members : i <= k
        IN  /\ all[first].bbox = output.bbox
            /\ all[first].class_id = output.class_id
            /\ \A k \in members \ {first} : Clustered(cfg, all[first], all[k])}

\* C33: under consensus with results of at least two backends every output
\* detection stands for a cluster to which at least min_backends_agree
\* distinct backends contributed (several detections of one backend count
\* once), and its confidence is the mean of the confidences of the members.
C33_ConsensusCountsDistinctBackends ==
    (sConfig.strategy = "consensus" /\ Len(sResults) >= 2) =>
        \A k \in 1..Len(sFused) :
            \E members \in ClustersOf(sConfig, Handed(sResults), sFused[k]) :
                /\ Cardinality({AllOwners(sResults)[i] : i \in members})
                      >= sConfig.min_backends_agree
                /\ sFused[k].confidence
                      = SumOver(Handed(sResults), members) \div Cardinality(members)


\* the results as _weighted_fusion weights them, each still a result of its
\* own backend
WeightedByBackend(cfg, results) ==
    LET weights == IF cfg.backend_weights # EmptyMap THEN cfg.backend_weights
                   ELSE DefaultWeights
    IN  [r \in 1..Len(results) |->
            [results[r] EXCEPT !.detections = WeightedDetections(weights, results[r])]]

\* C34: under the strategies that cluster detections (parallel_merge,
\* weighted, consensus with two results or more) every detection handed over
\* carries the type of the backend that produced it, and under weighted the
\* keypoints of every output are those the keypoint-merge rule picks when it
\* compares these types with prefer_pose_from.
C34_ClusteredDetectionsKeepTheirBackendType ==
    /\ (\/ sConfig.strategy \in {"parallel", "weighted"}
        \/ sConfig.strategy = "consensus" /\ Len(sResults) >= 2) =>
          \A r \in 1..Len(sAfter) : \A i \in 1..Len(sAfter[r].detections) :
              sAfter[r].detections[i].backend_source = sResults[r].backend_type
    /\ sConfig.strategy = "weighted" =>
          LET expected == ParallelMerge(sConfig, WeightedByBackend(sConfig, sResults))
          IN  /\ Len(sFused) = Len(expected)
              /\ \A k \in 1..Len(sFused) : sFused[k].keypoints = expected[k].keypoints


\* the detections the clustering strategies compare: those handed over,
\* weighted first under the weighted strategy
Compared(cfg, results) ==
    IF cfg.strategy = "weighted" THEN Handed(WeightedByBackend(cfg, results))
    ELSE Handed(results)

\* C35: under parallel_merge, consensus and weighted, when two backends
\* report one detection each and the two form a cluster, the one output
\* detection has the confidence the configured confidence_aggregation (max,
\* mean or min) gives for the two.
C35_AggregationModeSetsClusterConfidence ==
    (/\ sConfig.strategy \in {"parallel", "consensus", "weighted"}
     /\ sConfig.min_backends_agree <= 2
     /\ Len(sResults) = 2
     /\ Len(sResults[1].detections) = 1
     /\ Len(sResults[2].detections) = 1
     /\ Clustered(sConfig, sResults[1].detections[1], sResults[2].detections[1])) =>
        /\ Len(sFused) = 1
        /\ sFused[1].confidence =
              AggregateConfidence(sConfig, Compared(sConfig, sResults)[1].confidence,
                                  Compared(sConfig, sResults)[2].confidence)


\* C39: the output of parallel_merge holds no two detections of the same
\* class whose boxes overlap by the threshold or more, and it holds no more
\* detections than the backends reported.
C39_ParallelMergeOutputIsDeduplicated ==
    sConfig.strategy = "parallel" =>
        /\ \A k \in 1..Len(sFused) : \A l \in (k + 1)..Len(sFused) :
              ~Clustered(sConfig, sFused[k], sFused[l])
        /\ Len(sFused) <= Len(Handed(sResults))


(***************************************************************************)
(* Cooldown per class and zone (notifier.py:93-102, 146-159)               *)
(***************************************************************************)
\* two alerts for the same class in the same zone
SamePair(a, b) == a.class_name = b.class_name /\ a.id[2] = b.id[2]

IsCallStep == nOp' = "process_zone_events" /\ now' = now

\* counters, cooldown times and history are what they were
DebounceStateKept ==
    /\ frame_counts' = frame_counts
    /\ last_alerts' = last_alerts
    /\ alert_history' = alert_history

\* C40: a call of process_zone_events while alerts are disabled returns no
\* alert and leaves counters, cooldown times and history unchanged; switching
\* alerts off or on changes none of them; and once alerts are enabled again
\* an inside event of a pair that still has a counter raises that counter by
\* one.
C40_DisabledCallsLeaveDebounceState ==
    [][/\ (IsCallStep /\ ~config_enabled) => (nAlerts' = <<>> /\ DebounceStateKept)
       /\ nOp' = "update_alert_config" => DebounceStateKept
       /\ (IsCallStep /\ config_enabled) =>
             \A i \in 1..Len(nEvents') :
                 (/\ nEvents'[i].event_type = "inside"
                  /\ nEvents'[i].class_name \in alert_classes
                  /\ GetKey(nEvents'[i].tracker_id, nEvents'[i].zone_id)
                        \in DOMAIN frame_counts) =>
                     frame_counts'[GetKey(nEvents'[i].tracker_id, nEvents'[i].zone_id)]
                        = frame_counts[GetKey(nEvents'[i].tracker_id,
                                              nEvents'[i].zone_id)] + 1]_vars

\* identity 7 stood in the zone for two frames, alerts are disabled, and a
\* call with its next inside event returned nothing and left the counter at 2
C40_Witness ==
    /\ nOp = "process_zone_events"
    /\ ~config_enabled
    /\ Len(nEvents) = 1
    /\ nEvents[1].event_type = "inside"
    /\ nEvents[1].tracker_id = 7
    /\ GetKey(7, nEvents[1].zone_id) \in DOMAIN frame_counts
    /\ frame_counts[GetKey(7, nEvents[1].zone_id)] = min_frames_in_zone - 1
    /\ nAlerts = <<>>
    /\ alert_history = <<>>


(***************************************************************************)
(* Teardown and detect calls in flight                                     *)
(***************************************************************************)
\* backends whose detect call, dispatched by process_frame, is outstanding
InFlight ==
    IF fPhase = "awaiting" THEN {b \in DOMAIN fTasks : fTasks[b].status = "pending"}
    ELSE {}

\* backends on whose detector the last manager operation called cleanup
CleanedUp == {pLog[i][2] : i \in {k \in 1..Len(pLog) : pLog[k][1] = "cleanup"}}

\* C38: remove_backend, clear_all_backends and apply_preset never call cleanup
\* on the detector of a backend whose detect call, dispatched by a
\* process_frame that is suspended, is still outstanding.
C38_NoCleanupWhileDetectInFlight ==
    pOp \in {"remove_backend", "clear_all_backends", "apply_preset"} =>
        CleanedUp \cap InFlight = {}

====
